---------------------------- MODULE Spec2Model ----------------------------
(***************************************************************************)
(* Vocalist attribution over lyric text (src/src/processors/lyrics.js).    *)
(*                                                                         *)
(* Text is modelled at character level: a JavaScript string is a sequence  *)
(* of one-character strings, so that the regular expressions of the source *)
(* are modelled by what they match, character by character.               *)
(***************************************************************************)
EXTENDS Integers, Sequences, FiniteSets, TLC

VARIABLES
    idx,                \* number of lines of `lines` consumed by the for loop
    line,               \* the loop variable: the line consumed last
    result,             \* parsedLyrics: sequence of [vocalist, line]
    vocalistStats,      \* object: sequence of [key, lines, words] in key order
    currentVocalists,   \* object: sequence of [name, format] in key order
    openFormattingTag,  \* "b" / "i" as a string of the model, or Null
    openTagVocalist,    \* a name, or Null
    pvText,             \* the argument of a direct call of parseVocalists
    pvOut,              \* what the direct calls of the exported functions returned
    statsArg,           \* the argument of generateStatsSummary, like vocalistStats
    summary,            \* what generateStatsSummary returned, or NoSummary
    songResults,        \* the argument of aggregateAlbumStats
    albumStats,         \* what aggregateAlbumStats returned, or NoAlbumStats
    opts,               \* httpGet: the options, [retries]
    attempts,           \* httpGet: the counter of attemptRequest
    reqs,               \* httpGet: the state of the request of each attempt
    timers,             \* httpGet: pending setTimeout(attemptRequest) timers
    promise,            \* httpGet: "pending", "resolved" or "rejected"
    limiter,            \* RateLimiter: [maxRequests, windowMs, requests]
    waiters,            \* the callers of waitForSlot
    granted             \* the slots granted within the last window

vars == <<idx, line, result, vocalistStats, currentVocalists,
          openFormattingTag, openTagVocalist, pvText, pvOut,
          statsArg, summary, songResults, albumStats,
          opts, attempts, reqs, timers, promise,
          limiter, waiters, granted>>

\* The variables of generateStatsSummary, of aggregateAlbumStats, of httpGet
\* and of RateLimiter.
summaryVars == <<statsArg, summary>>
albumVars == <<songResults, albumStats>>
httpVars == <<opts, attempts, reqs, timers, promise>>
limiterVars == <<limiter, waiters, granted>>

\* The variables outside lyrics parsing and the direct calls.
extraVars == <<summaryVars, albumVars, httpVars, limiterVars>>

\* The variables of parseLyricsWithVocalists / of the direct calls.
loopVars == <<idx, line, result, vocalistStats, currentVocalists,
              openFormattingTag, openTagVocalist>>
callVars == <<pvText, pvOut>>

\* null (and the empty string, which is falsy like null: the source only
\* tests these two variables for truthiness).
Null == <<>>

-----------------------------------------------------------------------------
(* Characters and string primitives of JavaScript used by the source.       *)

\* \s of the regular expressions and the characters String.trim removes.
IsSpace(c) == c \in {" ", "\t"}

\* String.prototype.toLowerCase on the letters of the model's alphabet.
ToLowerChar(c) ==
    CASE c = "W" -> "w"
      [] c = "I" -> "i"
      [] c = "T" -> "t"
      [] c = "H" -> "h"
      [] OTHER   -> c

RECURSIVE TrimStart(_)
TrimStart(s) ==
    IF s # <<>> /\ IsSpace(Head(s)) THEN TrimStart(Tail(s)) ELSE s

RECURSIVE TrimEnd(_)
TrimEnd(s) ==
    IF s # <<>> /\ IsSpace(s[Len(s)]) THEN TrimEnd(SubSeq(s, 1, Len(s) - 1)) ELSE s

\* String.prototype.trim
Trim(s) == TrimEnd(TrimStart(s))

\* s.startsWith(p, at): p occurs in s at the 1-based position at.
MatchAt(s, p, at) ==
    /\ at >= 1
    /\ at + Len(p) - 1 <= Len(s)
    /\ \A k \in 1..Len(p) : s[at + k - 1] = p[k]

\* String.prototype.startsWith
StartsWith(s, p) == MatchAt(s, p, 1)

\* String.prototype.includes
Includes(s, p) == \E at \in 1..(Len(s) + 1) : MatchAt(s, p, at)

\* String.prototype.indexOf, 1-based; 0 when p does not occur (-1 in JS).
IndexOf(s, p) ==
    IF Includes(s, p)
    THEN CHOOSE at \in 1..(Len(s) + 1) :
            /\ MatchAt(s, p, at)
            /\ \A b \in 1..(at - 1) : ~MatchAt(s, p, b)
    ELSE 0

\* s.substring(from) with a 1-based from.
Substring(s, from) == SubSeq(s, from, Len(s))

\* The markup of the lyric text.
OpenB  == <<"<", "b", ">">>
CloseB == <<"<", "/", "b", ">">>
OpenI  == <<"<", "i", ">">>
CloseI == <<"<", "/", "i", ">">>
Amp    == <<"&", "a", "m", "p", ";">>
Marker == <<"|", "|", "|">>
Removed == Marker \o <<"R", "E", "M", "O", "V", "E", "D">> \o Marker
Unknown == <<"U", "n", "k", "n", "o", "w", "n">>


-----------------------------------------------------------------------------
(* JavaScript objects used as dictionaries.  An object is the sequence of   *)
(* its own properties in the order Object.keys / Object.entries list them:  *)
(* integer-like keys first, in ascending numeric order, then the other      *)
(* string keys in the order they were first assigned.                       *)

IsDigit(c) == c \in {"0", "1", "2", "3", "4", "5", "6", "7", "8", "9"}

DigitVal(c) ==
    CASE c = "0" -> 0 [] c = "1" -> 1 [] c = "2" -> 2 [] c = "3" -> 3
      [] c = "4" -> 4 [] c = "5" -> 5 [] c = "6" -> 6 [] c = "7" -> 7
      [] c = "8" -> 8 [] OTHER -> 9

\* a < b for canonical decimal numerals (no leading zero) a and b.
NumLess(a, b) ==
    \/ Len(a) < Len(b)
    \/ /\ Len(a) = Len(b)
       /\ \E k \in 1..Len(a) :
            /\ DigitVal(a[k]) < DigitVal(b[k])
            /\ \A j \in 1..(k - 1) : a[j] = b[j]

\* 2^32 - 2, the largest array index.
MaxArrayIndex == <<"4", "2", "9", "4", "9", "6", "7", "2", "9", "4">>

\* An "array index" property key: a canonical numeral up to 2^32 - 2.
IsIndexKey(k) ==
    /\ k # <<>>
    /\ \A j \in 1..Len(k) : IsDigit(k[j])
    /\ (Len(k) = 1 \/ k[1] # "0")
    /\ (k = MaxArrayIndex \/ NumLess(k, MaxArrayIndex))

ObjKeys(obj) == [j \in 1..Len(obj) |-> obj[j].key]

ObjHas(obj, k) == \E j \in 1..Len(obj) : obj[j].key = k

ObjPos(obj, k) == CHOOSE j \in 1..Len(obj) : obj[j].key = k

\* The place a new key k takes in obj.
ObjInsertPos(obj, k) ==
    IF IsIndexKey(k)
    THEN 1 + Cardinality({j \in 1..Len(obj) :
                            IsIndexKey(obj[j].key) /\ NumLess(obj[j].key, k)})
    ELSE Len(obj) + 1

\* obj[k] = v, where v is a record without the key field.
ObjSet(obj, k, entry) ==
    IF ObjHas(obj, k)
    THEN [obj EXCEPT ![ObjPos(obj, k)] = entry]
    ELSE LET at == ObjInsertPos(obj, k)
         IN  SubSeq(obj, 1, at - 1) \o <<entry>> \o SubSeq(obj, at, Len(obj))

-----------------------------------------------------------------------------
(* Regular-expression replacements of the source, by what they match.       *)

\* The end of the whitespace run that starts at position at.
RECURSIVE SkipSpaces(_, _)
SkipSpaces(s, at) ==
    IF at <= Len(s) /\ IsSpace(s[at]) THEN SkipSpaces(s, at + 1) ELSE at

\* s.replace(/p/g, r) for a literal p.
RECURSIVE ReplaceAll(_, _, _)
ReplaceAll(s, p, r) ==
    IF s = <<>> THEN <<>>
    ELSE IF StartsWith(s, p) THEN r \o ReplaceAll(Substring(s, Len(p) + 1), p, r)
    ELSE <<Head(s)>> \o ReplaceAll(Tail(s), p, r)

\* s.replace(p, r) for strings p and r (r without $): the first occurrence only.
ReplaceFirst(s, p, r) ==
    LET at == IndexOf(s, p)
    IN  IF at = 0 THEN s
        ELSE SubSeq(s, 1, at - 1) \o r \o Substring(s, at + Len(p))

\* s.replace(/\s+/g, ' ')
RECURSIVE CollapseSpaces(_)
CollapseSpaces(s) ==
    IF s = <<>> THEN <<>>
    ELSE IF IsSpace(Head(s))
         THEN <<" ">> \o CollapseSpaces(Substring(s, SkipSpaces(s, 1)))
         ELSE <<Head(s)>> \o CollapseSpaces(Tail(s))

\* s.replace(/\s*d\s*/g, '|||') for a literal delimiter d, from position at.
RECURSIVE ReplaceDelimFrom(_, _, _)
ReplaceDelimFrom(s, d, at) ==
    IF at > Len(s) THEN <<>>
    ELSE LET q == SkipSpaces(s, at)
         IN  IF MatchAt(s, d, q)
             THEN Marker \o ReplaceDelimFrom(s, d, SkipSpaces(s, q + Len(d)))
             ELSE <<s[at]>> \o ReplaceDelimFrom(s, d, at + 1)

ReplaceDelim(s, d) == ReplaceDelimFrom(s, d, 1)

\* The word "with" in any letter case at position at.
MatchWithAt(s, at) ==
    /\ at + 3 <= Len(s)
    /\ [k \in 1..4 |-> ToLowerChar(s[at + k - 1])] = <<"w", "i", "t", "h">>

\* s.replace(/\s+with\s+/gi, '|||'), from position at.
RECURSIVE ReplaceWithFrom(_, _)
ReplaceWithFrom(s, at) ==
    IF at > Len(s) THEN <<>>
    ELSE LET q == SkipSpaces(s, at)
         IN  IF /\ q > at
                /\ MatchWithAt(s, q)
                /\ q + 4 <= Len(s)
                /\ IsSpace(s[q + 4])
             THEN Marker \o ReplaceWithFrom(s, SkipSpaces(s, q + 4))
             ELSE <<s[at]>> \o ReplaceWithFrom(s, at + 1)

\* The end of the run of '|' that starts at position at.
RECURSIVE SkipPipes(_, _)
SkipPipes(s, at) ==
    IF at <= Len(s) /\ s[at] = "|" THEN SkipPipes(s, at + 1) ELSE at

\* s.replace(/\|\|\|+/g, '|||'): a run of three or more '|' becomes '|||'.
RECURSIVE CollapseMarkers(_, _)
CollapseMarkers(s, at) ==
    IF at > Len(s) THEN <<>>
    ELSE LET e == SkipPipes(s, at)
         IN  IF e - at >= 3
             THEN Marker \o CollapseMarkers(s, e)
             ELSE <<s[at]>> \o CollapseMarkers(s, at + 1)

\* s.replace(/^\|\|\||||\|\|\|$/g, ''): the alternatives are ^|||, the
\* empty string (twice) and |||$.  The empty alternative matches before
\* |||$ is tried, so only a leading marker is removed.
StripEdgeMarkers(s) ==
    IF StartsWith(s, Marker) THEN Substring(s, Len(Marker) + 1) ELSE s

\* s.split('|||')
RECURSIVE SplitOnMarker(_, _)
SplitOnMarker(s, cur) ==
    IF s = <<>> THEN <<cur>>
    ELSE IF StartsWith(s, Marker)
         THEN <<cur>> \o SplitOnMarker(Substring(s, Len(Marker) + 1), <<>>)
         ELSE SplitOnMarker(Tail(s), Append(cur, Head(s)))

\* [,&\s] of the clean-up expression.
IsDelimChar(c) == c = "," \/ c = "&" \/ IsSpace(c)

RECURSIVE StripLeadingDelims(_)
StripLeadingDelims(s) ==
    IF s # <<>> /\ IsDelimChar(Head(s)) THEN StripLeadingDelims(Tail(s)) ELSE s

RECURSIVE StripTrailingDelims(_)
StripTrailingDelims(s) ==
    IF s # <<>> /\ IsDelimChar(s[Len(s)])
    THEN StripTrailingDelims(SubSeq(s, 1, Len(s) - 1))
    ELSE s

\* s.replace(/^\s*&amp;\s*/g, '')
StripLeadingAmp(s) ==
    LET q == SkipSpaces(s, 1)
    IN  IF MatchAt(s, Amp, q) THEN Substring(s, SkipSpaces(s, q + Len(Amp))) ELSE s

\* s.replace(/<[^>]*>/g, ''), from position at.
RECURSIVE IndexOfFrom(_, _, _)
IndexOfFrom(s, c, at) ==
    IF at > Len(s) THEN 0
    ELSE IF s[at] = c THEN at ELSE IndexOfFrom(s, c, at + 1)

RECURSIVE StripTags(_, _)
StripTags(s, at) ==
    IF at > Len(s) THEN <<>>
    ELSE IF s[at] = "<" /\ IndexOfFrom(s, ">", at + 1) # 0
         THEN StripTags(s, IndexOfFrom(s, ">", at + 1) + 1)
         ELSE <<s[at]>> \o StripTags(s, at + 1)

\* s.split(/\s+/).filter(word => word.length > 0).length
RECURSIVE CountWords(_, _)
CountWords(s, at) ==
    IF at > Len(s) THEN 0
    ELSE IF IsSpace(s[at]) THEN CountWords(s, at + 1)
    ELSE IF at = Len(s) \/ IsSpace(s[at + 1]) THEN 1 + CountWords(s, at + 1)
    ELSE CountWords(s, at + 1)

-----------------------------------------------------------------------------
(* parseVocalists and its helpers.                                          *)

\* Mutant of processVocalistName: the entity is left as written.
processVocalistNameNoDecode(name) == name

\* processVocalistName: name.replace(/&amp;/g, '&')
processVocalistName(name) == ReplaceAll(name, Amp, <<"&">>)

\* cleanSegment: one leading '(' and one trailing ')' removed, whitespace
\* runs collapsed, trimmed.
cleanSegment(segment) ==
    LET a == IF segment # <<>> /\ Head(segment) = "(" THEN Tail(segment) ELSE segment
        b == IF a # <<>> /\ a[Len(a)] = ")" THEN SubSeq(a, 1, Len(a) - 1) ELSE a
    IN  Trim(CollapseSpaces(b))

\* splitIntoSegments: split on the marker, trim, drop the empty segments.
splitIntoSegments(text) ==
    LET parts   == SplitOnMarker(text, <<>>)
        trimmed == [j \in 1..Len(parts) |-> Trim(parts[j])]
    IN  SelectSeq(trimmed, LAMBDA x : Len(x) > 0)

\* Mutant of normalizeDelimiters: & and &amp; are no delimiters.
normalizeDelimitersKeepsAmpersand(text) ==
    LET s3 == ReplaceWithFrom(text, 1)
        s4 == ReplaceDelim(s3, <<",">>)
        s5 == CollapseMarkers(s4, 1)
    IN  StripEdgeMarkers(s5)

\* normalizeDelimiters: the six replacements, in the order of the source.
normalizeDelimiters(text) ==
    LET s1 == ReplaceDelim(text, Amp)
        s2 == ReplaceDelim(s1, <<"&">>)
        s3 == ReplaceWithFrom(s2, 1)
        s4 == ReplaceDelim(s3, <<",">>)
        s5 == CollapseMarkers(s4, 1)
    IN  StripEdgeMarkers(s5)

\* parseUntaggedText: the plain vocalists of the untagged text, in order.
parseUntaggedText(text) ==
    IF text = <<>> THEN <<>>
    ELSE LET segments == splitIntoSegments(normalizeDelimiters(text))
             cleaned  == [j \in 1..Len(segments) |-> cleanSegment(segments[j])]
             kept     == SelectSeq(cleaned, LAMBDA x : x # <<>>)
         IN  [j \in 1..Len(kept) |->
                [name |-> processVocalistName(kept[j]), format |-> "plain"]]

\* Mutant of patterns: the nested spans are given the format of their outer tag.
patternsOuterTagOnly ==
    << [open |-> OpenB \o OpenI, close |-> CloseI \o CloseB, format |-> "bold"],
       [open |-> OpenI \o OpenB, close |-> CloseB \o CloseI, format |-> "italic"],
       [open |-> OpenB,          close |-> CloseB,           format |-> "bold"],
       [open |-> OpenI,          close |-> CloseI,           format |-> "italic"] >>

\* The four patterns of extractTaggedVocalists, in the order of the source.
patterns ==
    << [open |-> OpenB \o OpenI, close |-> CloseI \o CloseB, format |-> "bold-italic"],
       [open |-> OpenI \o OpenB, close |-> CloseB \o CloseI, format |-> "bold-italic"],
       [open |-> OpenB,          close |-> CloseB,           format |-> "bold"],
       [open |-> OpenI,          close |-> CloseI,           format |-> "italic"] >>

\* The position of the first '<' at or after at (Len + 1 when there is none):
\* where [^<]+ stops.
RECURSIVE EndOfText(_, _)
EndOfText(s, at) ==
    IF at <= Len(s) /\ s[at] # "<" THEN EndOfText(s, at + 1) ELSE at

\* while ((match = regex.exec(text)) !== null): the successive matches of
\* open ([^<]+) close in text, searched from position at.
RECURSIVE ExecAll(_, _, _)
ExecAll(text, pat, at) ==
    IF at > Len(text) THEN <<>>
    ELSE LET c0 == at + Len(pat.open)
             e  == EndOfText(text, c0)
         IN  IF MatchAt(text, pat.open, at) /\ e > c0 /\ MatchAt(text, pat.close, e)
             THEN << [fullMatch |-> SubSeq(text, at, e + Len(pat.close) - 1),
                      content   |-> Trim(SubSeq(text, c0, e - 1)),
                      format    |-> pat.format,
                      start     |-> at - 1,
                      end       |-> e + Len(pat.close) - 1] >>
                  \o ExecAll(text, pat, e + Len(pat.close))
             ELSE ExecAll(text, pat, at + 1)

\* allMatches before the sort: the matches of each pattern, pattern by pattern.
AllMatches(text) ==
    ExecAll(text, patterns[1], 1) \o ExecAll(text, patterns[2], 1)
        \o ExecAll(text, patterns[3], 1) \o ExecAll(text, patterns[4], 1)

\* allMatches.sort((a, b) => a.start - b.start): a stable sort by start.
RECURSIVE SortByStart(_)
SortByStart(ms) ==
    IF ms = <<>> THEN <<>>
    ELSE LET rest == SortByStart(Tail(ms))
             m    == Head(ms)
             n    == Cardinality({j \in 1..Len(rest) : rest[j].start < m.start})
         IN  SubSeq(rest, 1, n) \o <<m>> \o SubSeq(rest, n + 1, Len(rest))

\* Mutant of Overlaps: no two matches overlap.
OverlapsNever(match, existing) == FALSE

\* The overlap test of the filter loop.
Overlaps(match, existing) ==
    \/ (match.start >= existing.start /\ match.start < existing.end)
    \/ (match.end > existing.start /\ match.end <= existing.end)

\* filteredMatches: a match is kept when it overlaps no match kept before.
RECURSIVE FilterMatches(_, _)
FilterMatches(ms, kept) ==
    IF ms = <<>> THEN kept
    ELSE IF \E j \in 1..Len(kept) : Overlaps(Head(ms), kept[j])
         THEN FilterMatches(Tail(ms), kept)
         ELSE FilterMatches(Tail(ms), Append(kept, Head(ms)))

filteredMatches(text) == FilterMatches(SortByStart(AllMatches(text)), <<>>)

\* The name a kept match gives: its content without a leading "with ".
MatchName(match) ==
    LET lower == [j \in 1..Len(match.content) |-> ToLowerChar(match.content[j])]
    IN  IF StartsWith(lower, <<"w", "i", "t", "h", " ">>)
        THEN Trim(Substring(match.content, 6))
        ELSE match.content

\* Mutant of ProcessMatches: the tag of a vocalist stays in the working text.
RECURSIVE ProcessMatchesKeepsTag(_, _)
ProcessMatchesKeepsTag(ms, acc) ==
    IF ms = <<>> THEN acc
    ELSE LET content == MatchName(Head(ms))
         IN  IF content # <<>>
             THEN ProcessMatchesKeepsTag(Tail(ms),
                    [vocalists   |-> Append(acc.vocalists,
                                        [name   |-> processVocalistName(content),
                                         format |-> Head(ms).format]),
                     workingText |-> acc.workingText])
             ELSE ProcessMatchesKeepsTag(Tail(ms), acc)

\* The loop over the kept matches: acc is [vocalists, workingText].
RECURSIVE ProcessMatches(_, _)
ProcessMatches(ms, acc) ==
    IF ms = <<>> THEN acc
    ELSE LET content == MatchName(Head(ms))
         IN  IF content # <<>>
             THEN ProcessMatches(Tail(ms),
                    [vocalists   |-> Append(acc.vocalists,
                                        [name   |-> processVocalistName(content),
                                         format |-> Head(ms).format]),
                     workingText |-> ReplaceFirst(acc.workingText,
                                                  Head(ms).fullMatch, Removed)])
             ELSE ProcessMatches(Tail(ms), acc)

\* The clean-up of the working text into remainingText.
CleanRemaining(workingText) ==
    Trim(StripTrailingDelims(StripLeadingDelims(StripLeadingAmp(
        CollapseSpaces(ReplaceAll(workingText, Removed, <<>>))))))

\* extractTaggedVocalists: [vocalists, remainingText].
extractTaggedVocalists(text) ==
    LET done == ProcessMatches(filteredMatches(text),
                               [vocalists |-> <<>>, workingText |-> text])
    IN  [vocalists     |-> done.vocalists,
         remainingText |-> CleanRemaining(done.workingText)]

\* vocalists[v.name] = v.format for each v of vs, in order.
RECURSIVE AssignAll(_, _)
AssignAll(obj, vs) ==
    IF vs = <<>> THEN obj
    ELSE AssignAll(ObjSet(obj, Head(vs).name,
                          [key |-> Head(vs).name, format |-> Head(vs).format]),
                   Tail(vs))

\* parseVocalists: tagged vocalists assigned first, then the untagged ones.
parseVocalists(vocalistsPart) ==
    LET taggedResult == extractTaggedVocalists(vocalistsPart)
    IN  AssignAll(AssignAll(<<>>, taggedResult.vocalists),
                  parseUntaggedText(taggedResult.remainingText))

-----------------------------------------------------------------------------
(* determineVocalist                                                        *)

\* vocalistEntries.find(([name, format]) => format === f): its position, or 0.
FindFormat(vocalists, f) ==
    IF \E j \in 1..Len(vocalists) : vocalists[j].format = f
    THEN CHOOSE j \in 1..Len(vocalists) :
            /\ vocalists[j].format = f
            /\ \A k \in 1..(j - 1) : vocalists[k].format # f
    ELSE 0

\* Mutant of DefaultVocalist: the first-entry fallback is forgotten.
DefaultVocalistNoFirst(vocalists) ==
    IF FindFormat(vocalists, "plain") # 0
    THEN vocalists[FindFormat(vocalists, "plain")].key
    ELSE Unknown

\* The plain vocalist, else the first entry, else 'Unknown'.
DefaultVocalist(vocalists) ==
    IF FindFormat(vocalists, "plain") # 0
    THEN vocalists[FindFormat(vocalists, "plain")].key
    ELSE IF vocalists # <<>> THEN vocalists[1].key ELSE Unknown

\* Mutant of determineVocalist: a line that begins with a bold-italic marker
\* is given to the bold-italic entry or to the default.
determineVocalistNoFallThrough(ln, vocalists) ==
    IF ln # <<>> /\ Head(ln) # "<"
    THEN DefaultVocalist(vocalists)
    ELSE IF StartsWith(ln, OpenB \o OpenI) \/ StartsWith(ln, OpenI \o OpenB)
    THEN IF FindFormat(vocalists, "bold-italic") # 0
         THEN vocalists[FindFormat(vocalists, "bold-italic")].key
         ELSE DefaultVocalist(vocalists)
    ELSE IF StartsWith(ln, OpenB) /\ FindFormat(vocalists, "bold") # 0
    THEN vocalists[FindFormat(vocalists, "bold")].key
    ELSE IF StartsWith(ln, OpenI) /\ FindFormat(vocalists, "italic") # 0
    THEN vocalists[FindFormat(vocalists, "italic")].key
    ELSE DefaultVocalist(vocalists)

\* Mutant of determineVocalist: the markers are looked for anywhere in the
\* line (includes) instead of at its start (startsWith).
determineVocalistAnywhere(ln, vocalists) ==
    IF ln # <<>> /\ ~Includes(ln, <<"<">>)
    THEN DefaultVocalist(vocalists)
    ELSE IF /\ (Includes(ln, OpenB \o OpenI) \/ Includes(ln, OpenI \o OpenB))
            /\ FindFormat(vocalists, "bold-italic") # 0
    THEN vocalists[FindFormat(vocalists, "bold-italic")].key
    ELSE IF Includes(ln, OpenB) /\ FindFormat(vocalists, "bold") # 0
    THEN vocalists[FindFormat(vocalists, "bold")].key
    ELSE IF Includes(ln, OpenI) /\ FindFormat(vocalists, "italic") # 0
    THEN vocalists[FindFormat(vocalists, "italic")].key
    ELSE DefaultVocalist(vocalists)

determineVocalist(ln, vocalists) ==
    IF ln # <<>> /\ Head(ln) # "<"
    THEN DefaultVocalist(vocalists)
    ELSE IF /\ (StartsWith(ln, OpenB \o OpenI) \/ StartsWith(ln, OpenI \o OpenB))
            /\ FindFormat(vocalists, "bold-italic") # 0
    THEN vocalists[FindFormat(vocalists, "bold-italic")].key
    ELSE IF StartsWith(ln, OpenB) /\ FindFormat(vocalists, "bold") # 0
    THEN vocalists[FindFormat(vocalists, "bold")].key
    ELSE IF StartsWith(ln, OpenI) /\ FindFormat(vocalists, "italic") # 0
    THEN vocalists[FindFormat(vocalists, "italic")].key
    ELSE DefaultVocalist(vocalists)

-----------------------------------------------------------------------------
(* The input: lyricsText.split('\n') yields lines drawn from InputLines.    *)

\* The number of lines of the lyric text.
MaxLines == 4

BracketL == <<"[">>
BracketR == <<"]">>

\* A section header [V<rest>].
Header(rest) == BracketL \o <<"V">> \o rest \o BracketR

HeaderLines ==
    { Header(<<>>),                                     \* [V]
      Header(<<":">>),                                  \* [V:]
      Header(<<":", " ", "A", ",">> \o OpenB \o <<"B">> \o CloseB
             \o <<",">> \o OpenI \o <<"C">> \o CloseI
             \o <<",">> \o OpenB \o OpenI \o <<"D">> \o CloseI \o CloseB),
                                \* [V: A,<b>B</b>,<i>C</i>,<b><i>D</i></b>]
      Header(<<":">> \o OpenB \o <<"B">> \o CloseB
             \o <<",">> \o OpenI \o <<"C">> \o CloseI),
                                                        \* [V:<b>B</b>,<i>C</i>]
      Header(<<":", "W", ":", "A">>) }                  \* [V:W:A]

LyricLines ==
    { <<" ", "x", " ", "y">>,                           \*  x y
      OpenB \o <<"x">> \o CloseB \o <<" ", "y">>,       \* <b>x</b> y
      OpenI \o <<"x">> \o CloseI,                       \* <i>x</i>
      OpenB \o OpenI \o <<"x">> \o CloseI \o CloseB,    \* <b><i>x</i></b>
      OpenI \o OpenB \o <<"x">> \o CloseB \o CloseI,    \* <i><b>x</b></i>
      OpenB \o <<"x">>,                                 \* <b>x
      <<"x">> \o CloseB,                                \* x</b>
      OpenB \o <<"x">> \o CloseI,                       \* <b>x</i>
      OpenI \o <<"x">>,                                 \* <i>x
      <<"x">> \o CloseI,                                \* x</i>
      OpenI \o <<"x">> \o CloseI \o <<" ">> \o OpenB \o <<"y">>,
                                                        \* <i>x</i> <b>y
      OpenB \o CloseB,                                  \* <b></b>
      BracketL \o BracketR }                            \* []

BlankLines == { <<>>, <<" ">> }

InputLines == HeaderLines \cup LyricLines \cup BlankLines

-----------------------------------------------------------------------------
(* parseLyricsWithVocalists: one action per path through the loop body.     *)

\* trimmedLine.match(/^\[([^\]]+)\]$/)
IsSectionHeader(t) ==
    /\ Len(t) >= 3
    /\ t[1] = "["
    /\ t[Len(t)] = "]"
    /\ \A j \in 2..(Len(t) - 1) : t[j] # "]"

\* sectionMatch[1]
SectionContent(t) == SubSeq(t, 2, Len(t) - 1)

\* Mutant of ColonIndex: lastIndexOf instead of indexOf.
ColonLastIndex(sectionContent) ==
    IF Includes(sectionContent, <<":">>)
    THEN CHOOSE at \in 1..Len(sectionContent) :
            /\ sectionContent[at] = ":"
            /\ \A b \in (at + 1)..Len(sectionContent) : sectionContent[b] # ":"
    ELSE 0

\* sectionContent.indexOf(':'), 1-based, 0 when there is no colon.
ColonIndex(sectionContent) == IndexOf(sectionContent, <<":">>)

\* sectionContent.substring(colonIndex + 1).trim()
VocalistsPart(sectionContent) ==
    Trim(Substring(sectionContent, ColonIndex(sectionContent) + 1))

\* trimmedLine.match(/<(i|b)>/): the tag of the leftmost opening marker, or Null.
OpenTagMatch(t) ==
    LET b == IndexOf(t, OpenB)
        i == IndexOf(t, OpenI)
    IN  IF b = 0 /\ i = 0 THEN Null
        ELSE IF i = 0 \/ (b # 0 /\ b < i) THEN <<"b">> ELSE <<"i">>

\* trimmedLine.match(/<\/(i|b)>/) is not null.
CloseTagMatch(t) == Includes(t, CloseB) \/ Includes(t, CloseI)

\* Mutant of CloseMarker: the close marker looked for is always </b>.
CloseMarkerBold(tag) == CloseB

\* </tag>
CloseMarker(tag) == <<"<", "/">> \o tag \o <<">">>

\* Mutant of WordCount: the tags are counted as text.
WordCountWithTags(t) == CountWords(Trim(t), 1)

\* cleanText and wordCount of a line.
WordCount(t) == CountWords(Trim(StripTags(t, 1)), 1)

\* Mutant of Attributed: a new statistics entry starts at lines: 1.
AttributedFromOne(vocalist, t) ==
    LET stats0 == IF ~ObjHas(vocalistStats, vocalist)
                  THEN ObjSet(vocalistStats, vocalist,
                              [key |-> vocalist, lines |-> 1, words |-> 0])
                  ELSE vocalistStats
        at     == ObjPos(stats0, vocalist)
    IN  /\ vocalistStats' = [stats0 EXCEPT ![at].lines = @ + 1,
                                           ![at].words = @ + WordCount(t)]
        /\ result' = Append(result, [vocalist |-> vocalist, line |-> t])

\* The statistics and result.push of an attributed line.
Attributed(vocalist, t) ==
    LET stats0 == IF ~ObjHas(vocalistStats, vocalist)
                  THEN ObjSet(vocalistStats, vocalist,
                              [key |-> vocalist, lines |-> 0, words |-> 0])
                  ELSE vocalistStats
        at     == ObjPos(stats0, vocalist)
    IN  /\ vocalistStats' = [stats0 EXCEPT ![at].lines = @ + 1,
                                           ![at].words = @ + WordCount(t)]
        /\ result' = Append(result, [vocalist |-> vocalist, line |-> t])

\* Mutant of HasVocalists: the test of the map is dropped.
HasVocalistsAlways == TRUE

\* Object.keys(currentVocalists).length > 0
HasVocalists == Len(ObjKeys(currentVocalists)) > 0

\* Mutant of HeaderVocalists: a header without a colon empties the map.
HeaderVocalistsCleared(t) ==
    IF ColonIndex(SectionContent(t)) # 0
    THEN parseVocalists(VocalistsPart(SectionContent(t)))
    ELSE <<>>

\* The map in force after a header: replaced when the header has a colon.
HeaderVocalists(t) ==
    IF ColonIndex(SectionContent(t)) # 0
    THEN parseVocalists(VocalistsPart(SectionContent(t)))
    ELSE currentVocalists

Consume(l) ==
    /\ idx < MaxLines
    /\ idx' = idx + 1
    /\ line' = l
    /\ UNCHANGED <<callVars, extraVars>>

\* Mutant of SkipEmptyLine: a blank line ends the open span.
SkipEmptyLineClosesSpan(l) ==
    /\ Consume(l)
    /\ Trim(l) = <<>>
    /\ openFormattingTag' = Null
    /\ openTagVocalist' = Null
    /\ UNCHANGED <<result, vocalistStats, currentVocalists>>

\* if (!trimmedLine) continue;
SkipEmptyLine(l) ==
    /\ Consume(l)
    /\ Trim(l) = <<>>
    /\ UNCHANGED <<result, vocalistStats, currentVocalists,
                   openFormattingTag, openTagVocalist>>

\* Mutant of SectionHeader: the formatting state is reset only by a header
\* that has a colon.
SectionHeaderKeepsOpenTag(l) ==
    LET t == Trim(l)
    IN  /\ Consume(l)
        /\ t # <<>>
        /\ IsSectionHeader(t)
        /\ IF ColonIndex(SectionContent(t)) # 0
           THEN openFormattingTag' = Null /\ openTagVocalist' = Null
           ELSE UNCHANGED <<openFormattingTag, openTagVocalist>>
        /\ currentVocalists' = HeaderVocalists(t)
        /\ UNCHANGED <<result, vocalistStats>>

\* if (sectionMatch) { ... continue; }
SectionHeader(l) ==
    LET t == Trim(l)
    IN  /\ Consume(l)
        /\ t # <<>>
        /\ IsSectionHeader(t)
        /\ openFormattingTag' = Null
        /\ openTagVocalist' = Null
        /\ currentVocalists' = HeaderVocalists(t)
        /\ UNCHANGED <<result, vocalistStats>>

\* A lyric line while Object.keys(currentVocalists).length is 0.
UnattributedLine(l) ==
    LET t == Trim(l)
    IN  /\ Consume(l)
        /\ t # <<>>
        /\ ~IsSectionHeader(t)
        /\ ~HasVocalists
        /\ UNCHANGED <<result, vocalistStats, currentVocalists,
                       openFormattingTag, openTagVocalist>>

\* A lyric line continuing a multi-line formatting tag.
ContinueOpenTag(l) ==
    LET t == Trim(l)
    IN  /\ Consume(l)
        /\ t # <<>>
        /\ ~IsSectionHeader(t)
        /\ HasVocalists
        /\ openFormattingTag # Null /\ openTagVocalist # Null
        /\ IF Includes(t, CloseMarker(openFormattingTag))
           THEN openFormattingTag' = Null /\ openTagVocalist' = Null
           ELSE UNCHANGED <<openFormattingTag, openTagVocalist>>
        /\ Attributed(openTagVocalist, t)
        /\ UNCHANGED currentVocalists

\* A lyric line attributed by determineVocalist.
DetermineLine(l) ==
    LET t == Trim(l)
        vocalist == determineVocalist(t, currentVocalists)
    IN  /\ Consume(l)
        /\ t # <<>>
        /\ ~IsSectionHeader(t)
        /\ HasVocalists
        /\ ~(openFormattingTag # Null /\ openTagVocalist # Null)
        /\ IF OpenTagMatch(t) # Null /\ ~CloseTagMatch(t)
           THEN openFormattingTag' = OpenTagMatch(t) /\ openTagVocalist' = vocalist
           ELSE UNCHANGED <<openFormattingTag, openTagVocalist>>
        /\ Attributed(vocalist, t)
        /\ UNCHANGED currentVocalists

\* No direct call has been made.
NoCall ==
    [pc |-> "idle", vocalists |-> <<>>, tagged |-> <<>>, remainingText |-> <<>>,
     untagged |-> <<>>, matches |-> <<>>, again |-> <<>>, line |-> <<>>,
     vocalist |-> <<>>, words |-> 0]

LoopInit ==
    /\ idx = 0
    /\ line = <<>>
    /\ result = <<>>
    /\ vocalistStats = <<>>
    /\ currentVocalists = <<>>
    /\ openFormattingTag = Null
    /\ openTagVocalist = Null

\* generateStatsSummary has not been called.
NoSummary ==
    [totalLines |-> 0, totalWords |-> 0, vocalistCount |-> 0,
     vocalistStats |-> <<>>, returned |-> FALSE]

SummaryIdle == statsArg = <<>> /\ summary = NoSummary

\* aggregateAlbumStats has not been called.
NoAlbumStats == [returned |-> FALSE]

AlbumIdle == songResults = <<>> /\ albumStats = NoAlbumStats

\* httpGet has not been called.
HttpIdle ==
    /\ opts = [retries |-> 0]
    /\ attempts = 0
    /\ reqs = <<>>
    /\ timers = 0
    /\ promise = "pending"

\* No RateLimiter has been constructed.
LimiterIdle ==
    /\ limiter = [maxRequests |-> 0, windowMs |-> 0, requests |-> <<>>]
    /\ waiters = <<>>
    /\ granted = <<>>

ExtraIdle == SummaryIdle /\ AlbumIdle /\ HttpIdle /\ LimiterIdle

\* Lyrics parsing and the direct calls are not in use.
LyricsIdle == LoopInit /\ pvText = <<>> /\ pvOut = NoCall

Init ==
    /\ LoopInit
    /\ pvText = <<>>
    /\ pvOut = NoCall
    /\ ExtraIdle

Next ==
    \E l \in InputLines :
        \/ SkipEmptyLine(l)
        \/ SectionHeader(l)
        \/ UnattributedLine(l)
        \/ ContinueOpenTag(l)
        \/ DetermineLine(l)

Spec == Init /\ [][Next]_vars

-----------------------------------------------------------------------------
(* Direct calls of the exported functions: parseVocalists on a vocalist     *)
(* list, then determineVocalist on the map it returned, or a second run of  *)
(* extractTaggedVocalists on the remaining text of the first.               *)

\* The number of items of a vocalist list.
MaxItems == 2

\* The items of a vocalist list: names, formatted spans, and spans that are
\* blank, nested or not closed.
ListItems ==
    { <<"A">>,                                                   \* A
      <<"2">>,                                                   \* 2
      <<"2", "&", "2">>,                                         \* 2&2
      <<"<", "b", ">", "A", "<", "/", "b", ">">>,                \* <b>A</b>
      <<"<", "i", ">", "B", "<", "/", "i", ">">>,                \* <i>B</i>
      <<"<", "b", ">", "<", "i", ">", "A", "<", "/", "i", ">", "<", "/", "b", ">">>, \* <b><i>A</i></b>
      <<"<", "i", ">", "<", "b", ">", "B", "<", "/", "b", ">", "<", "/", "i", ">">>, \* <i><b>B</b></i>
      <<"<", "i", ">", "A", " ", "&", " ", "B", "<", "/", "i", ">">>, \* <i>A & B</i>
      <<"<", "b", ">", "A", " ", "&", "a", "m", "p", ";", " ", "B", "<", "/", "b", ">">>, \* <b>A &amp; B</b>
      <<"A", " ", "<", "i", ">", "w", "i", "t", "h", " ", "B", "<", "/", "i", ">">>, \* A <i>with B</i>
      <<"<", "i", ">", "W", "i", "t", "h", " ", "<", "/", "i", ">">>, \* <i>With </i>
      <<"<", "b", ">", "<", "i", ">", "A", "<", "/", "i", ">", "x", "<", "/", "b", ">">>, \* <b><i>A</i>x</b>
      <<>> }                                                     \* (empty)

\* What stands between two items.
ListSeparators ==
    { <<",", " ">>,                                              \* ,
      <<" ", "&", " ">>,                                         \*  &
      <<" ", "&", "a", "m", "p", ";", " ">>,                     \*  &amp;
      <<" ", "w", "i", "t", "h", " ", "W", "i", "t", "h", " ">> } \*  with With

RECURSIVE ListsOf(_)
ListsOf(n) ==
    IF n = 1 THEN ListItems
    ELSE {l \o s \o i : l \in ListsOf(n - 1), s \in ListSeparators, i \in ListItems}

VocalistLists == UNION {ListsOf(n) : n \in 1..MaxItems}

\* The lyric lines given to determineVocalist.
CallLines ==
    { <<"x", " ", "y">>,                                         \* x y
      <<"<", "i", ">", "x">>,                                    \* <i>x
      <<"<", "b", ">", "<", "i", ">", "x", " ", "y", "<", "/", "i", ">", "<", "/", "b", ">">>, \* <b><i>x y</i></b>
      <<"<", "i", ">", "<", "b", ">", "x">>,                     \* <i><b>x
      <<"<", "u", ">", "x">> }                                   \* <u>x

CallInit ==
    /\ LoopInit
    /\ pvText \in VocalistLists
    /\ pvOut = [NoCall EXCEPT !.pc = "start"]
    /\ ExtraIdle

\* parseVocalists(pvText); the results of its extractTaggedVocalists and of
\* its parseUntaggedText are kept.
CallParseVocalists ==
    /\ pvOut.pc = "start"
    /\ LET taggedResult == extractTaggedVocalists(pvText)
       IN  pvOut' = [pvOut EXCEPT
                       !.pc = "parsed",
                       !.vocalists = parseVocalists(pvText),
                       !.tagged = taggedResult.vocalists,
                       !.remainingText = taggedResult.remainingText,
                       !.matches = filteredMatches(pvText),
                       !.untagged = parseUntaggedText(taggedResult.remainingText)]
    /\ UNCHANGED <<pvText, loopVars, extraVars>>

\* extractTaggedVocalists(remainingText).vocalists
CallExtractAgain ==
    /\ pvOut.pc = "parsed"
    /\ pvOut' = [pvOut EXCEPT
                   !.pc = "extracted",
                   !.again = extractTaggedVocalists(pvOut.remainingText).vocalists]
    /\ UNCHANGED <<pvText, loopVars, extraVars>>

\* determineVocalist(l, vocalists) and the word count of l.
CallDetermineVocalist(l) ==
    /\ pvOut.pc = "parsed"
    /\ pvOut' = [pvOut EXCEPT
                   !.pc = "determined",
                   !.line = l,
                   !.vocalist = determineVocalist(l, pvOut.vocalists),
                   !.words = WordCount(l)]
    /\ UNCHANGED <<pvText, loopVars, extraVars>>

CallNext ==
    \/ CallParseVocalists
    \/ CallExtractAgain
    \/ \E l \in CallLines : CallDetermineVocalist(l)

CallSpec == CallInit /\ [][CallNext]_vars

-----------------------------------------------------------------------------
(* generateStatsSummary, called on a statistics object.                     *)

\* The number of vocalists of a statistics object, and the largest count of
\* lines or words of one vocalist.
MaxVocalists == 3
MaxCount == 2

\* The digits of a natural number.
RECURSIVE NumberString(_)
NumberString(n) ==
    LET digit == <<"0", "1", "2", "3", "4", "5", "6", "7", "8", "9">>[(n % 10) + 1]
    IN  IF n < 10 THEN <<digit>> ELSE Append(NumberString(n \div 10), digit)

\* Mutant of ToFixed1: the digits after the first decimal are cut off.
ToFixed1Truncated(num, den) ==
    LET tenths == (1000 * num) \div den
    IN  NumberString(tenths \div 10) \o <<".">> \o NumberString(tenths % 10)

\* (num / den * 100).toFixed(1): the nearest tenth, the larger one on a tie,
\* as a string. For den < 80 the double num / den * 100 rounds to the same
\* tenth as the exact quotient.
ToFixed1(num, den) ==
    LET tenths == (2000 * num + den) \div (2 * den)
    IN  NumberString(tenths \div 10) \o <<".">> \o NumberString(tenths % 10)

\* A percentage of the summary: the string of toFixed(1), or the number 0.
Percentage(count, total) ==
    IF total > 0
    THEN [isString |-> TRUE,  text |-> ToFixed1(count, total), number |-> 0]
    ELSE [isString |-> FALSE, text |-> <<>>,                   number |-> 0]

\* Object.values(vocalistStats).reduce((sum, stats) => sum + stats.lines, 0)
RECURSIVE ReduceLines(_, _)
ReduceLines(stats, sum) ==
    IF stats = <<>> THEN sum ELSE ReduceLines(Tail(stats), sum + Head(stats).lines)

\* Mutant of ReduceWords: the lines are summed again.
ReduceWordsSumsLines(stats, sum) == ReduceLines(stats, sum)

RECURSIVE ReduceWords(_, _)
ReduceWords(stats, sum) ==
    IF stats = <<>> THEN sum ELSE ReduceWords(Tail(stats), sum + Head(stats).words)

generateStatsSummary(stats) ==
    LET totalLines == ReduceLines(stats, 0)
        totalWords == ReduceWords(stats, 0)
    IN  [totalLines    |-> totalLines,
         totalWords    |-> totalWords,
         vocalistCount |-> Len(ObjKeys(stats)),
         vocalistStats |->
             [j \in 1..Len(stats) |->
                 [key             |-> stats[j].key,
                  linesPercentage |-> Percentage(stats[j].lines, totalLines),
                  wordsPercentage |-> Percentage(stats[j].words, totalWords),
                  lines           |-> stats[j].lines,
                  words           |-> stats[j].words]],
         returned      |-> TRUE]

\* The names of the vocalists of a statistics object, in key order.
StatsNames == << <<"A">>, <<"B">>, <<"C">>, <<"D">> >>

\* The statistics objects of n vocalists.
StatsObjects(n) ==
    {[j \in 1..n |-> [key |-> StatsNames[j], lines |-> c[j][1], words |-> c[j][2]]] :
        c \in [1..n -> (0..MaxCount) \X (0..MaxCount)]}

SummaryInit ==
    /\ LyricsIdle
    /\ statsArg \in UNION {StatsObjects(n) : n \in 0..MaxVocalists}
    /\ summary = NoSummary
    /\ AlbumIdle /\ HttpIdle /\ LimiterIdle

CallGenerateStatsSummary ==
    /\ ~summary.returned
    /\ summary' = generateStatsSummary(statsArg)
    /\ UNCHANGED <<statsArg, loopVars, callVars, albumVars, httpVars, limiterVars>>

SummaryNext == CallGenerateStatsSummary

SummarySpec == SummaryInit /\ [][SummaryNext]_vars

-----------------------------------------------------------------------------
(* aggregateAlbumStats (src/src/processors/album-stats.js), called on the   *)
(* results of the songs of an album.  A result is what processSongForAlbum  *)
(* returns (src/src/cli/commands/album.js:26-65) or what a caller of the    *)
(* exported function builds: vocalistStats is a summary of                  *)
(* generateStatsSummary, or NoSummary when the property is missing.         *)

MaxSongs == 2

\* Mutant of IsSuccessful: every result counts as processed.
IsSuccessfulAlways(r) == r.vocalistStats.returned \/ ~r.vocalistStats.returned

\* result.success && result.vocalistStats
IsSuccessful(r) == r.success /\ r.vocalistStats.returned

\* !result.success
IsFailed(r) == ~r.success

\* songResults.filter(result => result.success && result.vocalistStats)
RECURSIVE SuccessfulSongs(_)
SuccessfulSongs(results) ==
    IF results = <<>> THEN <<>>
    ELSE IF IsSuccessful(Head(results))
         THEN <<Head(results)>> \o SuccessfulSongs(Tail(results))
         ELSE SuccessfulSongs(Tail(results))

\* songResults.filter(result => !result.success)
RECURSIVE FailedSongs(_)
FailedSongs(results) ==
    IF results = <<>> THEN <<>>
    ELSE IF IsFailed(Head(results))
         THEN <<Head(results)>> \o FailedSongs(Tail(results))
         ELSE FailedSongs(Tail(results))

\* parseFloat of a percentage of a summary, in tenths: the string of
\* toFixed(1) read as a decimal number, or the number 0.
RECURSIVE ParseTenths(_, _)
ParseTenths(text, acc) ==
    IF text = <<>> THEN acc
    ELSE IF IsDigit(Head(text))
         THEN ParseTenths(Tail(text), 10 * acc + DigitVal(Head(text)))
         ELSE ParseTenths(Tail(text), acc)

parseFloat(p) == IF p.isString THEN ParseTenths(p.text, 0) ELSE 10 * p.number

\* (num / den).toFixed(1): the nearest tenth of the quotient.
ToFixed1Ratio(num, den) == ToFixed1(num, 100 * den)

\* The body of Object.entries(songStats).forEach at album-stats.js:35-55.
RECURSIVE AddSongStats(_, _, _)
AddSongStats(aggregatedVocalists, entries, song) ==
    IF entries = <<>> THEN aggregatedVocalists
    ELSE LET stats == Head(entries)
             vocalist == stats.key
             old == IF ObjHas(aggregatedVocalists, vocalist)
                    THEN aggregatedVocalists[ObjPos(aggregatedVocalists, vocalist)]
                    ELSE [key |-> vocalist, lines |-> 0, words |-> 0,
                          songsAppeared |-> 0, songDetails |-> <<>>]
             new == [key |-> vocalist,
                     lines |-> old.lines + stats.lines,
                     words |-> old.words + stats.words,
                     songsAppeared |-> old.songsAppeared + 1,
                     songDetails |-> Append(old.songDetails,
                         [songTitle |-> song.songInfo.title,
                          lines |-> stats.lines,
                          words |-> stats.words,
                          linesPercentage |-> parseFloat(stats.linesPercentage),
                          wordsPercentage |-> parseFloat(stats.wordsPercentage)])]
         IN  AddSongStats(ObjSet(aggregatedVocalists, vocalist, new),
                          Tail(entries), song)

\* successfulSongs.forEach at album-stats.js:32-59: the aggregated vocalists
\* and the two totals.
RECURSIVE AggregateSongs(_, _)
AggregateSongs(songs, acc) ==
    IF songs = <<>> THEN acc
    ELSE LET song == Head(songs)
         IN  AggregateSongs(Tail(songs),
                 [aggregatedVocalists |->
                      AddSongStats(acc.aggregatedVocalists,
                                   song.vocalistStats.vocalistStats, song),
                  totalLines |-> acc.totalLines + song.vocalistStats.totalLines,
                  totalWords |-> acc.totalWords + song.vocalistStats.totalWords])

\* The first vocalist with the most lines, none when no one has a line
\* (album-stats.js:62-75 and findTopVocalistInSong).
RECURSIVE TopVocalist(_, _, _)
TopVocalist(entries, topVocalist, maxLines) ==
    IF entries = <<>> THEN topVocalist
    ELSE IF Head(entries).lines > maxLines
         THEN TopVocalist(Tail(entries), Head(entries).key, Head(entries).lines)
         ELSE TopVocalist(Tail(entries), topVocalist, maxLines)

findTopVocalistInSong(stats) == TopVocalist(stats, Null, 0)

\* The comparator of songBreakdown.sort; a missing track number is 0.
CompareTracks(a, b) ==
    IF a.trackNumber # 0 /\ b.trackNumber # 0
    THEN a.trackNumber - b.trackNumber
    ELSE 0

\* Array.prototype.sort is stable: x goes behind the entries not after it.
RECURSIVE InsertByTrack(_, _)
InsertByTrack(sorted, x) ==
    IF sorted = <<>> THEN <<x>>
    ELSE IF CompareTracks(sorted[Len(sorted)], x) > 0
         THEN Append(InsertByTrack(SubSeq(sorted, 1, Len(sorted) - 1), x),
                     sorted[Len(sorted)])
         ELSE Append(sorted, x)

RECURSIVE SortBreakdown(_, _)
SortBreakdown(breakdown, sorted) ==
    IF breakdown = <<>> THEN sorted
    ELSE SortBreakdown(Tail(breakdown), InsertByTrack(sorted, Head(breakdown)))

aggregateAlbumStats(results) ==
    LET successfulSongs == SuccessfulSongs(results)
        failedSongs == FailedSongs(results)
        agg == AggregateSongs(successfulSongs,
                   [aggregatedVocalists |-> <<>>, totalLines |-> 0, totalWords |-> 0])
        distribution ==
            [j \in 1..Len(agg.aggregatedVocalists) |->
                LET stats == agg.aggregatedVocalists[j]
                IN  [key |-> stats.key,
                     lines |-> stats.lines,
                     words |-> stats.words,
                     songsAppeared |-> stats.songsAppeared,
                     songDetails |-> stats.songDetails,
                     linesPercentage |-> Percentage(stats.lines, agg.totalLines),
                     wordsPercentage |-> Percentage(stats.words, agg.totalWords),
                     averageLinesPerSong |->
                         ToFixed1Ratio(stats.lines, stats.songsAppeared),
                     averageWordsPerSong |->
                         ToFixed1Ratio(stats.words, stats.songsAppeared)]]
        succeeded ==
            [j \in 1..Len(successfulSongs) |->
                LET song == successfulSongs[j]
                IN  [title |-> song.songInfo.title,
                     trackNumber |-> song.trackNumber,
                     status |-> "success",
                     error |-> Null,
                     lines |-> song.vocalistStats.totalLines,
                     words |-> song.vocalistStats.totalWords,
                     vocalists |-> ObjKeys(song.vocalistStats.vocalistStats),
                     topVocalist |->
                         findTopVocalistInSong(song.vocalistStats.vocalistStats)]]
        failed ==
            [j \in 1..Len(failedSongs) |->
                LET song == failedSongs[j]
                IN  [title |-> IF song.title # Null THEN song.title ELSE Unknown,
                     trackNumber |-> song.trackNumber,
                     status |-> "failed",
                     error |-> song.error,
                     lines |-> 0,
                     words |-> 0,
                     vocalists |-> <<>>,
                     topVocalist |-> Null]]
    IN  IF Len(successfulSongs) = 0
        THEN [returned |-> TRUE,
              totalSongs |-> Len(results),
              processedSongs |-> 0,
              successRate |-> Percentage(0, 0),
              totalLines |-> 0,
              totalWords |-> 0,
              vocalistDistribution |-> <<>>,
              topVocalist |-> Null,
              songBreakdown |-> <<>>]
        ELSE [returned |-> TRUE,
              totalSongs |-> Len(results),
              processedSongs |-> Len(successfulSongs),
              successRate |-> Percentage(Len(successfulSongs), Len(results)),
              totalLines |-> agg.totalLines,
              totalWords |-> agg.totalWords,
              vocalistDistribution |-> distribution,
              topVocalist |-> TopVocalist(agg.aggregatedVocalists, Null, 0),
              songBreakdown |-> SortBreakdown(succeeded \o failed, <<>>),
              averageLinesPerSong |->
                  ToFixed1Ratio(agg.totalLines, Len(successfulSongs)),
              averageWordsPerSong |->
                  ToFixed1Ratio(agg.totalWords, Len(successfulSongs))]

\* The vocalists and the counts of the songs of the album.
AlbumNames == {StatsNames[1], StatsNames[2]}
SongCounts == {<<1, 2>>, <<2, 3>>}

\* The statistics of a song: no vocalist, one, or two different ones.
SongStats ==
    {<<>>}
    \cup {<<[key |-> n, lines |-> c[1], words |-> c[2]]>> :
              n \in AlbumNames, c \in SongCounts}
    \cup {<<[key |-> n[1], lines |-> c[1], words |-> c[2]],
            [key |-> n[2], lines |-> d[1], words |-> d[2]]>> :
              n \in {m \in AlbumNames \X AlbumNames : m[1] # m[2]},
              c \in SongCounts, d \in SongCounts}

SongTitle(i) == <<"T">> \o NumberString(i)

\* The results the i-th song of n can have: processed, failed with an error,
\* or marked successful without statistics; the tracks are numbered in the
\* order of the results or against it.
SongResultsAt(i, n) ==
    LET tracks == {i, n + 1 - i}
    IN  {[success |-> TRUE, songInfo |-> [title |-> SongTitle(i)],
          title |-> SongTitle(i), trackNumber |-> t, error |-> Null,
          vocalistStats |-> generateStatsSummary(st)] :
              t \in tracks, st \in SongStats}
        \cup {[success |-> ok, songInfo |-> [title |-> Null],
               title |-> SongTitle(i), trackNumber |-> t,
               error |-> IF ok THEN Null ELSE <<"e">> \o NumberString(i),
               vocalistStats |-> NoSummary] :
              t \in tracks, ok \in BOOLEAN}

RECURSIVE SongResultLists(_, _)
SongResultLists(i, n) ==
    IF i > n THEN {<<>>}
    ELSE {<<r>> \o rest : r \in SongResultsAt(i, n), rest \in SongResultLists(i + 1, n)}

AlbumInit ==
    /\ LyricsIdle
    /\ SummaryIdle
    /\ songResults \in UNION {SongResultLists(1, n) : n \in 0..MaxSongs}
    /\ albumStats = NoAlbumStats
    /\ HttpIdle /\ LimiterIdle

CallAggregateAlbumStats ==
    /\ ~albumStats.returned
    /\ albumStats' = aggregateAlbumStats(songResults)
    /\ UNCHANGED <<songResults, loopVars, callVars, summaryVars, httpVars, limiterVars>>

AlbumNext == CallAggregateAlbumStats

AlbumSpec == AlbumInit /\ [][AlbumNext]_vars

-----------------------------------------------------------------------------
(* httpGet (src/src/utils/http.js:19-93): one call.  Each run of            *)
(* attemptRequest opens a request; the callbacks of the requests and the    *)
(* retry timers run one at a time, in any order the network and the event   *)
(* loop produce.  A request is "open" until its response ends, it fails or  *)
(* it times out; the timeout callback destroys the request, which may emit  *)
(* 'error' on the same request afterwards.                                  *)

MaxRetries == 3

\* The status codes of a response: success, redirect, client error, server
\* error.
StatusCodes == {200, 301, 404, 500}

\* resolve / reject settle the promise once; later calls change nothing.
Settle(p, outcome) == IF p = "pending" THEN outcome ELSE p

\* The state right after httpGet returned its promise: the executor has run
\* attemptRequest once.
HttpInit ==
    /\ LyricsIdle
    /\ SummaryIdle /\ AlbumIdle
    /\ opts \in {[retries |-> r] : r \in 1..MaxRetries}
    /\ attempts = 1
    /\ reqs = <<[state |-> "open", statusCode |-> 0]>>
    /\ timers = 0
    /\ promise = "pending"
    /\ LimiterIdle

\* if (attempts < opts.retries) setTimeout(attemptRequest, ...) else reject
RetryOrReject ==
    IF attempts < opts.retries
    THEN timers' = timers + 1 /\ promise' = promise
    ELSE timers' = timers /\ promise' = Settle(promise, "rejected")

\* res.on('end') of the request of attempt a, with the status code received.
ResponseEnd(a, statusCode) ==
    /\ reqs[a].state = "open"
    /\ reqs' = [reqs EXCEPT ![a] = [state |-> "ended", statusCode |-> statusCode]]
    /\ IF statusCode >= 200 /\ statusCode < 300
       THEN timers' = timers /\ promise' = Settle(promise, "resolved")
       ELSE IF statusCode >= 400 /\ statusCode < 500
            THEN timers' = timers /\ promise' = Settle(promise, "rejected")
            ELSE RetryOrReject
    /\ UNCHANGED <<opts, attempts, loopVars, callVars, summaryVars, albumVars, limiterVars>>

\* req.on('error') of the request of attempt a: the request failed, or it
\* was destroyed by its timeout callback.
RequestError(a) ==
    /\ reqs[a].state \in {"open", "timedOut"}
    /\ reqs' = [reqs EXCEPT ![a].state =
                   IF reqs[a].state = "open" THEN "errored" ELSE "closed"]
    /\ RetryOrReject
    /\ UNCHANGED <<opts, attempts, loopVars, callVars, summaryVars, albumVars, limiterVars>>

\* req.on('timeout') of the request of attempt a: req.destroy(), then retry
\* or reject.
RequestTimeout(a) ==
    /\ reqs[a].state = "open"
    /\ reqs' = [reqs EXCEPT ![a].state = "timedOut"]
    /\ RetryOrReject
    /\ UNCHANGED <<opts, attempts, loopVars, callVars, summaryVars, albumVars, limiterVars>>

\* A retry timer fires: attemptRequest runs again.
AttemptRequest ==
    /\ timers > 0
    /\ timers' = timers - 1
    /\ attempts' = attempts + 1
    /\ reqs' = Append(reqs, [state |-> "open", statusCode |-> 0])
    /\ UNCHANGED <<opts, promise, loopVars, callVars, summaryVars, albumVars, limiterVars>>

HttpNext ==
    \/ \E a \in 1..Len(reqs), statusCode \in StatusCodes : ResponseEnd(a, statusCode)
    \/ \E a \in 1..Len(reqs) : RequestError(a)
    \/ \E a \in 1..Len(reqs) : RequestTimeout(a)
    \/ AttemptRequest

HttpSpec == HttpInit /\ [][HttpNext]_vars

-----------------------------------------------------------------------------
(* RateLimiter (src/src/utils/http.js:129-160).  Callers run waitForSlot    *)
(* concurrently; a run is atomic up to its await, and a caller that was     *)
(* granted a slot may call again.  Times are kept relative to the clock:    *)
(* an entry of requests is its age now - time in milliseconds, which is all *)
(* the code uses of it (counted up to windowMs, from where on it is         *)
(* expired), and a pending delay is the time left until its timer is due.   *)

MaxCallers == 3
MaxRequests == 2
MaxWindowMs == 2

Callers == 1..MaxCallers

\* new RateLimiter(maxRequests, windowMs), and no call made yet.
LimiterInit ==
    /\ LyricsIdle
    /\ SummaryIdle /\ AlbumIdle /\ HttpIdle
    /\ limiter \in {[maxRequests |-> m, windowMs |-> w, requests |-> <<>>] :
                       m \in 1..MaxRequests, w \in 1..MaxWindowMs}
    /\ waiters = [c \in Callers |-> [pc |-> "idle", delay |-> 0]]
    /\ granted = <<>>

\* this.requests.filter(time => now - time < this.windowMs)
RECURSIVE FilterRequests(_, _)
FilterRequests(requests, windowMs) ==
    IF requests = <<>> THEN <<>>
    ELSE IF Head(requests) < windowMs
         THEN <<Head(requests)>> \o FilterRequests(Tail(requests), windowMs)
         ELSE FilterRequests(Tail(requests), windowMs)

\* now - Math.min(...requests): the age of the oldest request.
RECURSIVE OldestAge(_)
OldestAge(requests) ==
    IF Len(requests) = 1 THEN Head(requests)
    ELSE LET rest == OldestAge(Tail(requests))
         IN  IF Head(requests) > rest THEN Head(requests) ELSE rest

\* oldestRequest + this.windowMs - now
WaitTime(requests, windowMs) == windowMs - OldestAge(requests)

\* The body of waitForSlot run by caller c, up to its await or its end.
RunWaitForSlot(c) ==
    LET requests == FilterRequests(limiter.requests, limiter.windowMs)
    IN  IF /\ Len(requests) >= limiter.maxRequests
           /\ WaitTime(requests, limiter.windowMs) > 0
        THEN /\ limiter' = [limiter EXCEPT !.requests = requests]
             /\ waiters' = [waiters EXCEPT ![c] =
                   [pc |-> "waiting",
                    delay |-> WaitTime(requests, limiter.windowMs)]]
             /\ granted' = granted
        ELSE /\ limiter' = [limiter EXCEPT !.requests = Append(requests, 0)]
             /\ waiters' = [waiters EXCEPT ![c] = [pc |-> "granted", delay |-> 0]]
             /\ granted' = Append(granted, 0)

\* Caller c calls waitForSlot.
WaitForSlot(c) ==
    /\ waiters[c].pc \in {"idle", "granted"}
    /\ RunWaitForSlot(c)
    /\ UNCHANGED <<loopVars, callVars, summaryVars, albumVars, httpVars>>

\* The delay of caller c is over: return this.waitForSlot().
DelayElapsed(c) ==
    /\ waiters[c].pc = "waiting"
    /\ waiters[c].delay = 0
    /\ RunWaitForSlot(c)
    /\ UNCHANGED <<loopVars, callVars, summaryVars, albumVars, httpVars>>

\* The ages a millisecond later; an age of windowMs stands for all beyond.
RECURSIVE Older(_, _)
Older(ages, windowMs) ==
    IF ages = <<>> THEN <<>>
    ELSE <<IF Head(ages) < windowMs THEN Head(ages) + 1 ELSE windowMs>>
             \o Older(Tail(ages), windowMs)

\* Date.now() advances by one millisecond.
Tick ==
    /\ limiter' = [limiter EXCEPT !.requests = Older(@, limiter.windowMs)]
    /\ waiters' = [c \in Callers |->
                      [waiters[c] EXCEPT !.delay = IF @ > 0 THEN @ - 1 ELSE 0]]
    /\ granted' = FilterRequests(Older(granted, limiter.windowMs), limiter.windowMs)
    /\ UNCHANGED <<loopVars, callVars, summaryVars, albumVars, httpVars>>

LimiterNext ==
    \/ \E c \in Callers : WaitForSlot(c)
    \/ \E c \in Callers : DelayElapsed(c)
    \/ Tick

LimiterSpec == LimiterInit /\ [][LimiterNext]_vars

\* Time advances, and a timer that is due fires.
LimiterFairness ==
    /\ WF_vars(Tick)
    /\ \A c \in Callers : WF_vars(DelayElapsed(c))

LimiterFairSpec == LimiterSpec /\ LimiterFairness

-----------------------------------------------------------------------------
(* Properties.                                                              *)

Last(s) == s[Len(s)]

\* A non-blank line that is not a section header.
IsLyricLine(t) == t # <<>> /\ ~IsSectionHeader(t)

\* A step of the loop that consumes a lyric line / a header line.
LyricStep  == idx' = idx + 1 /\ IsLyricLine(Trim(line'))
HeaderStep == idx' = idx + 1 /\ IsSectionHeader(Trim(line'))

\* The header label of a header line contains a colon.
LabelHasColon(t) == \E k \in 2..(Len(t) - 1) : t[k] = ":"

\* The state Open(tag, vocalist) / Closed of the line attribution engine.
IsOpen   == openFormattingTag # Null /\ openTagVocalist # Null
IsClosed == openFormattingTag = Null /\ openTagVocalist = Null

\* The step appends exactly one attributed line, for the line consumed.
AppendsLine ==
    /\ Len(result') = Len(result) + 1
    /\ SubSeq(result', 1, Len(result)) = result
    /\ Last(result').line = Trim(line')

Names(vocalists) == {vocalists[j].key : j \in 1..Len(vocalists)}

\* The tag of the span a line opens and does not close: the leftmost of
\* <b>, <i> whose own close marker does not appear on the line; else Null.
UnclosedTag(t) ==
    LET b == IF Includes(t, CloseB) THEN 0 ELSE IndexOf(t, OpenB)
        i == IF Includes(t, CloseI) THEN 0 ELSE IndexOf(t, OpenI)
    IN  IF b = 0 /\ i = 0 THEN Null
        ELSE IF i = 0 \/ (b # 0 /\ b < i) THEN <<"b">> ELSE <<"i">>

\* A run over one section: one header (with a vocalist list), then only
\* attributed lyric lines, so that result holds every lyric line consumed.
SingleSection == Len(result) >= 1 /\ idx = Len(result) + 1

\* In a single-section run, the span open before the j-th lyric line when
\* spans open and close as C1 and C7 state: [tag, opener].
RECURSIVE SpanBefore(_)
SpanBefore(j) ==
    IF j = 1 THEN [tag |-> Null, opener |-> 0]
    ELSE LET p == SpanBefore(j - 1)
             t == result[j - 1].line
         IN  IF p.tag # Null
             THEN IF Includes(t, <<"<", "/">> \o p.tag \o <<">">>)
                  THEN [tag |-> Null, opener |-> 0]
                  ELSE p
             ELSE IF UnclosedTag(t) # Null
                  THEN [tag |-> UnclosedTag(t), opener |-> j - 1]
                  ELSE [tag |-> Null, opener |-> 0]

\* C1 (as claimed): once a lyric line attributed in the Closed state opens a
\* <b> or <i> span that it does not close, every following lyric line of the
\* section, up to and including the first one containing the matching close
\* marker, is attributed to the vocalist of the opening line.
C1_OpenSpanCarriesVocalist ==
    SingleSection =>
        \A j \in 1..Len(result) :
            SpanBefore(j).tag # Null =>
                result[j].vocalist = result[SpanBefore(j).opener].vocalist

\* C2: the active vocalist map changes only in a step that consumes a header
\* line whose label contains a colon; a header without a colon, a blank line
\* and a lyric line leave it unchanged.
C2_MapChangesOnlyOnColonHeader ==
    [][ currentVocalists' # currentVocalists =>
            (HeaderStep /\ LabelHasColon(Trim(line'))) ]_vars

\* C2 witness: a header without a colon has been consumed while a non-empty
\* map from an earlier section is in force.
C2_Witness ==
    /\ idx >= 2
    /\ IsSectionHeader(Trim(line)) /\ ~LabelHasColon(Trim(line))
    /\ currentVocalists # <<>>

\* C3: every header line, with or without a colon, leaves the open-tag state
\* closed, and the lyric line that follows a header is attributed by
\* determineVocalist.
C3_HeaderResetsOpenTag ==
    [][ /\ HeaderStep => (openFormattingTag' = Null /\ openTagVocalist' = Null)
        /\ (IsSectionHeader(Trim(line)) /\ LyricStep /\ currentVocalists # <<>>) =>
              result' = Append(result,
                  [vocalist |-> determineVocalist(Trim(line'), currentVocalists),
                   line     |-> Trim(line')]) ]_vars

\* C3 witness: a header without a colon was consumed after a lyric line that
\* left a span open, and the state is closed.
C3_Witness ==
    /\ IsSectionHeader(Trim(line)) /\ ~LabelHasColon(Trim(line))
    /\ result # <<>>
    /\ OpenTagMatch(Last(result).line) # Null
    /\ ~CloseTagMatch(Last(result).line)
    /\ IsClosed

RECURSIVE SumLines(_)
SumLines(stats) ==
    IF stats = <<>> THEN 0 ELSE Head(stats).lines + SumLines(Tail(stats))

\* C4: a lyric line is appended to the attributed lines and counted exactly
\* when the active map is non-empty; otherwise it changes neither the
\* attributed lines nor the statistics.
C4_AttributedIffMapNonEmpty ==
    [][ LyricStep =>
            IF currentVocalists # <<>>
            THEN AppendsLine /\ SumLines(vocalistStats') = SumLines(vocalistStats) + 1
            ELSE result' = result /\ vocalistStats' = vocalistStats ]_vars

\* C4 witness: after lines were attributed, a colon header gave an empty map
\* and a lyric line was dropped.
C4_Witness ==
    /\ Len(result) >= 1
    /\ currentVocalists = <<>>
    /\ IsLyricLine(Trim(line))

\* The label of a header line, and the text after its last / first colon.
Label(t) == SubSeq(t, 2, Len(t) - 1)

AfterLastColon(c) ==
    LET k == CHOOSE k \in 1..Len(c) :
                c[k] = ":" /\ \A j \in (k + 1)..Len(c) : c[j] # ":"
    IN  SubSeq(c, k + 1, Len(c))

AfterFirstColon(c) ==
    LET k == CHOOSE k \in 1..Len(c) :
                c[k] = ":" /\ \A j \in 1..(k - 1) : c[j] # ":"
    IN  SubSeq(c, k + 1, Len(c))

\* C5 (as claimed): after a header whose label contains a colon, the active
\* map is the parse of the text after the last colon of the label.
C5_ListAfterLastColon ==
    (IsSectionHeader(Trim(line)) /\ LabelHasColon(Trim(line))) =>
        currentVocalists = parseVocalists(Trim(AfterLastColon(Label(Trim(line)))))

\* C5 (amended): after a header whose label contains a colon, the active map
\* is the parse of the text after the first colon of the label.
C5_ListAfterFirstColon ==
    (IsSectionHeader(Trim(line)) /\ LabelHasColon(Trim(line))) =>
        currentVocalists = parseVocalists(Trim(AfterFirstColon(Label(Trim(line)))))

\* C5 witness: a header whose label has two colons has been consumed.
C5_Witness ==
    /\ IsSectionHeader(Trim(line))
    /\ Cardinality({k \in 1..Len(line) : line[k] = ":"}) = 2
    /\ currentVocalists # <<>>

\* C6: in the state Open(tag, vocalist) a lyric line is attributed to that
\* vocalist whatever it begins with; the state becomes Closed when the line
\* contains the close marker of that tag and is unchanged otherwise.
C6_OpenStateAttribution ==
    [][ (IsOpen /\ LyricStep) =>
            /\ result' = Append(result, [vocalist |-> openTagVocalist,
                                         line     |-> Trim(line')])
            /\ IF Includes(Trim(line'), <<"<", "/">> \o openFormattingTag \o <<">">>)
               THEN openFormattingTag' = Null /\ openTagVocalist' = Null
               ELSE UNCHANGED <<openFormattingTag, openTagVocalist>> ]_vars

\* C6 witness: a span of <i> is open after a line that holds only the close
\* marker of <b>.
C6_Witness ==
    /\ IsOpen
    /\ openFormattingTag = <<"i">>
    /\ Len(result) >= 2
    /\ Includes(Last(result).line, CloseB)
    /\ ~Includes(Last(result).line, CloseI)
    /\ Last(result).vocalist = openTagVocalist

\* C7 (as claimed): in the Closed state with a non-empty map, a lyric line
\* that opens a <b> or <i> span whose matching close marker is not on the
\* line makes the state Open(tag, vocalist just attributed); any other line
\* leaves it Closed.
C7_OpensUnclosedSpan ==
    [][ (IsClosed /\ LyricStep /\ currentVocalists # <<>>) =>
            IF UnclosedTag(Trim(line')) # Null
            THEN /\ openFormattingTag' = UnclosedTag(Trim(line'))
                 /\ Len(result') > 0
                 /\ openTagVocalist' = Last(result').vocalist
            ELSE openFormattingTag' = Null /\ openTagVocalist' = Null ]_vars

C9_VocalistIsInActiveMap ==
    [][ result' # result =>
            /\ Len(result') > 0
            /\ Last(result').vocalist \in Names(currentVocalists)
            /\ Last(result').vocalist # Unknown ]_vars

\* C9 witness: a line without any opening marker was attributed through an
\* open span, which is still open.
C9_Witness ==
    /\ IsOpen
    /\ Len(result) >= 2
    /\ OpenTagMatch(Last(result).line) = Null
    /\ Last(result).vocalist = openTagVocalist
    /\ Last(result).vocalist \in Names(currentVocalists)

Formats == {"plain", "bold", "italic", "bold-italic"}

\* The map holds exactly one entry of each format.
OneOfEachFormat(vocalists) ==
    \A f \in Formats :
        Cardinality({j \in 1..Len(vocalists) : vocalists[j].format = f}) = 1

NameOfFormat(vocalists, f) ==
    vocalists[CHOOSE j \in 1..Len(vocalists) : vocalists[j].format = f].key

\* The format the leading marker of a line stands for; "none" when the line
\* begins with some other tag.
LeadingFormat(t) ==
    IF Head(t) # "<" THEN "plain"
    ELSE IF StartsWith(t, OpenB \o OpenI) \/ StartsWith(t, OpenI \o OpenB)
    THEN "bold-italic"
    ELSE IF StartsWith(t, OpenB) THEN "bold"
    ELSE IF StartsWith(t, OpenI) THEN "italic"
    ELSE "none"

\* C10: with a map holding one entry of each format, a lyric line attributed
\* in the Closed state goes to the entry of the format of its leading marker
\* (plain for ordinary text), whatever follows in the line.
C10_LeadingMarkerDecides ==
    [][ (IsClosed /\ LyricStep /\ OneOfEachFormat(currentVocalists)
            /\ LeadingFormat(Trim(line')) # "none") =>
            /\ AppendsLine
            /\ Last(result').vocalist =
                  NameOfFormat(currentVocalists, LeadingFormat(Trim(line'))) ]_vars

\* C10 witness: with one entry of each format, a line that begins with an
\* italic span and goes on with a bold marker was attributed to the italic
\* vocalist.
C10_Witness ==
    /\ OneOfEachFormat(currentVocalists)
    /\ Len(result) = 1
    /\ result[1].line = OpenI \o <<"x">> \o CloseI \o <<" ">> \o OpenB \o <<"y">>
    /\ result[1].vocalist = NameOfFormat(currentVocalists, "italic")

-----------------------------------------------------------------------------
(* Properties of the direct calls (CallSpec)                                *)

\* The map a sequence of assignments builds when it keeps the order of first
\* insertion: a name assigned again keeps its place and takes the new format.
RECURSIVE InsertedInOrder(_, _)
InsertedInOrder(acc, vs) ==
    IF vs = <<>> THEN acc
    ELSE LET e == [key |-> Head(vs).name, format |-> Head(vs).format]
         IN  IF \E j \in 1..Len(acc) : acc[j].key = e.key
             THEN InsertedInOrder(
                      [j \in 1..Len(acc) |-> IF acc[j].key = e.key THEN e ELSE acc[j]],
                      Tail(vs))
             ELSE InsertedInOrder(Append(acc, e), Tail(vs))

\* The assignments of parseVocalists, in the order it makes them, and the map
\* in insertion order.
Assignments == pvOut.tagged \o pvOut.untagged
InsertionMap == InsertedInOrder(<<>>, Assignments)

HasFormat(vocalists, f) == \E j \in 1..Len(vocalists) : vocalists[j].format = f

\* The first plain entry, else the first entry, else 'Unknown'.
FirstPlainElseFirst(vocalists) ==
    IF HasFormat(vocalists, "plain")
    THEN vocalists[CHOOSE j \in 1..Len(vocalists) :
                      /\ vocalists[j].format = "plain"
                      /\ \A k \in 1..(j - 1) : vocalists[k].format # "plain"].key
    ELSE IF vocalists # <<>> THEN vocalists[1].key ELSE Unknown

\* The line begins with a marker whose format has no entry in the map, or
\* with a tag that is no marker.
NoEntryForLeadingMarker ==
    /\ pvOut.pc = "determined"
    /\ LeadingFormat(pvOut.line) # "plain"
    /\ \/ LeadingFormat(pvOut.line) = "none"
       \/ ~HasFormat(pvOut.vocalists, LeadingFormat(pvOut.line))

\* C11: when the map has no entry of the format of the line's leading marker
\* (or the line begins with an unrecognised tag), determineVocalist returns
\* the first plain entry in insertion order, else the first entry in
\* insertion order, and 'Unknown' only for an empty map.
C11_FallbackInInsertionOrder ==
    NoEntryForLeadingMarker =>
        /\ pvOut.vocalist = FirstPlainElseFirst(InsertionMap)
        /\ (pvOut.vocalist = Unknown => pvOut.vocalists = <<>>)

\* The four kinds of formatted span: opening markers, closing markers, format.
SpanKinds ==
    { <<OpenB, CloseB, "bold">>,
      <<OpenI, CloseI, "italic">>,
      <<OpenB \o OpenI, CloseI \o CloseB, "bold-italic">>,
      <<OpenI \o OpenB, CloseB \o CloseI, "bold-italic">> }

\* A name: text without any tag that is not blank.
IsNameText(x) ==
    /\ \A j \in 1..Len(x) : x[j] # "<"
    /\ \E j \in 1..Len(x) : x[j] # " "

\* The text is one span of kind k around a name, and nothing else.
IsSpanOfKind(text, k) ==
    /\ Len(text) > Len(k[1]) + Len(k[2])
    /\ SubSeq(text, 1, Len(k[1])) = k[1]
    /\ SubSeq(text, Len(text) - Len(k[2]) + 1, Len(text)) = k[2]
    /\ IsNameText(SubSeq(text, Len(k[1]) + 1, Len(text) - Len(k[2])))

IsSingleSpan(text) == \E k \in SpanKinds : IsSpanOfKind(text, k)

\* C12: for a vocalist list that is exactly one formatted span and no other
\* text, parseVocalists returns a map of exactly one entry, whose format is
\* the format of the span.
C12_SingleSpanGivesOneEntry ==
    (pvOut.pc = "parsed" /\ IsSingleSpan(pvText)) =>
        /\ Len(pvOut.vocalists) = 1
        /\ \E k \in SpanKinds :
              IsSpanOfKind(pvText, k) /\ pvOut.vocalists[1].format = k[3]

\* C12 witness: the list <i><b>B</b></i> was parsed into the single
\* bold-italic entry B.
C12_Witness ==
    /\ pvOut.pc = "parsed"
    /\ pvText = OpenI \o OpenB \o <<"B">> \o CloseB \o CloseI
    /\ pvOut.vocalists = << [key |-> <<"B">>, format |-> "bold-italic"] >>

\* The name of the duo, and the spans of the input that hold it: text, format.
DuoName == <<"A", " ", "&", " ", "B">>
DuoSpans ==
    { <<OpenI \o DuoName \o CloseI, "italic">>,
      <<OpenB \o <<"A", " ">> \o Amp \o <<" ", "B">> \o CloseB, "bold">> }

\* The input without its duo spans.
RECURSIVE WithoutSpans(_, _)
WithoutSpans(text, spans) ==
    IF spans = {} THEN text
    ELSE LET d == CHOOSE x \in spans : TRUE
         IN  WithoutSpans(ReplaceAll(text, d[1], <<>>), spans \ {d})

\* C13: a formatted span whose inner text is two names around & or &amp;
\* yields one vocalist, named by both names joined by ' & ' and carrying the
\* format of the span; the map holds that name once, and holds an inner name
\* only when the text outside the span lists it.
C13_DuoSpanIsOneEntry ==
    \A d \in DuoSpans :
        (pvOut.pc = "parsed" /\ Includes(pvText, d[1])) =>
            /\ \E j \in 1..Len(pvOut.tagged) :
                  pvOut.tagged[j] = [name |-> DuoName, format |-> d[2]]
            /\ Cardinality({j \in 1..Len(pvOut.vocalists) :
                               pvOut.vocalists[j].key = DuoName}) = 1
            /\ \A n \in {<<"A">>, <<"B">>} :
                  n \in Names(pvOut.vocalists) =>
                      Includes(WithoutSpans(pvText, DuoSpans), n)
            /\ (\A e \in DuoSpans \ {d} : ~Includes(pvText, e[1])) =>
                  \E j \in 1..Len(pvOut.vocalists) :
                      pvOut.vocalists[j] = [key |-> DuoName, format |-> d[2]]

\* C13 witness: the list <b>A &amp; B</b> was parsed into the single bold
\* entry 'A & B'.
C13_Witness ==
    /\ pvOut.pc = "parsed"
    /\ pvText = OpenB \o <<"A", " ">> \o Amp \o <<" ", "B">> \o CloseB
    /\ pvOut.vocalists = << [key |-> DuoName, format |-> "bold"] >>

\* The untagged names of the input, and the ways & joins two of them.
PlainNames == {<<"A">>, <<"2">>}
AmpersandJoins == {<<" ", "&", " ">>, <<" ">> \o Amp \o <<" ">>}

\* The input is the two distinct names n1, n2 joined by one & or &amp;.
IsTwoNameJoin(text, n1, n2) ==
    /\ n1 # n2
    /\ \E a \in AmpersandJoins : text = n1 \o a \o n2

\* C14 as claimed: an untagged list of exactly two names joined by a single &
\* (or &amp;) is kept as one duo: parseVocalists returns a single entry named
\* by the two names joined by ' & '.
C14_UntaggedDuoIsKept ==
    \A n1, n2 \in PlainNames :
        (pvOut.pc = "parsed" /\ IsTwoNameJoin(pvText, n1, n2)) =>
            /\ Len(pvOut.vocalists) = 1
            /\ pvOut.vocalists[1].key = n1 \o <<" ", "&", " ">> \o n2

\* C14 amended: an untagged list of exactly two names joined by a single &
\* (or &amp;) is split at the ampersand: parseVocalists returns two plain
\* entries, one for each name, and no entry for the duo.
C14_UntaggedDuoIsSplit ==
    \A n1, n2 \in PlainNames :
        (pvOut.pc = "parsed" /\ IsTwoNameJoin(pvText, n1, n2)) =>
            /\ Len(pvOut.vocalists) = 2
            /\ Names(pvOut.vocalists) = {n1, n2}
            /\ \A j \in 1..2 : pvOut.vocalists[j].format = "plain"

\* C14 witness: the list 'A &amp; 2' was parsed into two entries.
C14_Witness ==
    /\ pvOut.pc = "parsed"
    /\ pvText = <<"A", " ">> \o Amp \o <<" ", "2">>
    /\ Len(pvOut.vocalists) = 2

\* The positions of the assignments that assign the name n.
AssignedAt(n) == {j \in 1..Len(Assignments) : Assignments[j].name = n}

\* The position of the name n in a map.
PositionIn(vocalists, n) ==
    CHOOSE j \in 1..Len(vocalists) : vocalists[j].key = n

Max(S) == CHOOSE x \in S : \A y \in S : y <= x

\* C15: when parseVocalists produces the same decoded name more than once,
\* the map holds one entry for the name, its format is the one assigned last
\* (a plain one, when the name also occurs untagged), and its position in the
\* map is that of its first insertion.
C15_DuplicateKeepsFirstPosition ==
    pvOut.pc = "parsed" =>
        \A n \in {Assignments[j].name : j \in 1..Len(Assignments)} :
            Cardinality(AssignedAt(n)) >= 2 =>
                /\ Cardinality({j \in 1..Len(pvOut.vocalists) :
                                   pvOut.vocalists[j].key = n}) = 1
                /\ pvOut.vocalists[PositionIn(pvOut.vocalists, n)].format =
                      Assignments[Max(AssignedAt(n))].format
                /\ (\E j \in 1..Len(pvOut.untagged) : pvOut.untagged[j].name = n) =>
                      pvOut.vocalists[PositionIn(pvOut.vocalists, n)].format = "plain"
                /\ PositionIn(pvOut.vocalists, n) = PositionIn(InsertionMap, n)

\* The segments between the delimiters of an untagged list: a delimiter is
\* &amp;, & or a comma, or the word "with" (any letter case) with white space
\* before and after it. cur is the segment being read.
RECURSIVE SegmentsBetween(_, _, _)
SegmentsBetween(text, at, cur) ==
    IF at > Len(text) THEN <<cur>>
    ELSE IF MatchAt(text, Amp, at)
    THEN <<cur>> \o SegmentsBetween(text, at + Len(Amp), <<>>)
    ELSE IF text[at] \in {",", "&"}
    THEN <<cur>> \o SegmentsBetween(text, at + 1, <<>>)
    ELSE IF /\ text[at] = " "
            /\ MatchWithAt(text, at + 1)
            /\ at + 5 <= Len(text)
            /\ text[at + 5] = " "
    THEN <<cur>> \o SegmentsBetween(text, at + 5, <<>>)
    ELSE SegmentsBetween(text, at + 1, Append(cur, text[at]))

\* The non-empty names of an untagged list, left to right.
ListedNames(text) ==
    LET segments == SegmentsBetween(text, 1, <<>>)
        trimmed  == [j \in 1..Len(segments) |-> Trim(segments[j])]
    IN  SelectSeq(trimmed, LAMBDA x : x # <<>>)

\* One plain entry per distinct name, in the order the names first occur.
PlainMapOf(names) ==
    InsertedInOrder(<<>>, [j \in 1..Len(names) |->
                              [name |-> names[j], format |-> "plain"]])

IsUntagged(text) == \A j \in 1..Len(text) : text[j] # "<"

\* C16: for an untagged list of names separated by any mix of commas, &,
\* &amp; and the white-space-surrounded word "with", repeated, leading and
\* trailing delimiters included, parseVocalists returns exactly one plain
\* entry per distinct non-empty name, left to right, and no empty name.
C16_OnePlainEntryPerName ==
    (pvOut.pc = "parsed" /\ IsUntagged(pvText)) =>
        /\ pvOut.vocalists = PlainMapOf(ListedNames(pvText))
        /\ \A j \in 1..Len(pvOut.vocalists) : pvOut.vocalists[j].key # <<>>

\* A span whose inner text is "with " and a name, and one whose inner text
\* is "With " alone.
WithSpan      == OpenI \o <<"w", "i", "t", "h", " ", "B">> \o CloseI
WithOnlySpan  == OpenI \o <<"W", "i", "t", "h", " ">> \o CloseI

\* C17: a span whose inner text begins with "with " (any letter case) yields
\* a vocalist named by the text after the prefix, with the format of the
\* span; untagged text before the span is a separate plain entry; a span
\* whose inner text is empty after the stripping adds no entry.
C17_WithPrefixIsStripped ==
    pvOut.pc = "parsed" =>
        /\ Includes(pvText, WithSpan) =>
              \E j \in 1..Len(pvOut.tagged) :
                  pvOut.tagged[j] = [name |-> <<"B">>, format |-> "italic"]
        /\ pvText = <<"A", " ">> \o WithSpan =>
              {pvOut.vocalists[j] : j \in 1..Len(pvOut.vocalists)} =
                  { [key |-> <<"A">>, format |-> "plain"],
                    [key |-> <<"B">>, format |-> "italic"] }
        /\ Includes(pvText, WithOnlySpan) =>
              \A j \in 1..Len(pvOut.tagged) :
                  pvOut.tagged[j] # [name |-> <<"W", "i", "t", "h">>, format |-> "italic"]
        /\ pvText = WithOnlySpan => pvOut.vocalists = <<>>

\* The position of the first '<' of the text at or after at, else Len + 1.
RECURSIVE NextTag(_, _)
NextTag(text, at) ==
    IF at > Len(text) \/ text[at] = "<" THEN at ELSE NextTag(text, at + 1)

\* A span of kind k around a name starts at position at.
SpanStartsAt(text, at, k) ==
    LET from == at + Len(k[1])
        to   == NextTag(text, from)
    IN  /\ MatchAt(text, k[1], at)
        /\ IsNameText(SubSeq(text, from, to - 1))
        /\ MatchAt(text, k[2], to)

\* The text outside the spans around names.
RECURSIVE OutsideSpans(_, _)
OutsideSpans(text, at) ==
    IF at > Len(text) THEN <<>>
    ELSE IF \E k \in SpanKinds : SpanStartsAt(text, at, k)
    THEN LET k == CHOOSE x \in SpanKinds : SpanStartsAt(text, at, x)
         IN  OutsideSpans(text, NextTag(text, at + Len(k[1])) + Len(k[2]))
    ELSE <<text[at]>> \o OutsideSpans(text, at + 1)

\* Every tag of the text belongs to a span around a name.
EveryTagInSpan(text) == IsUntagged(OutsideSpans(text, 1))

\* C18 as claimed: the extractor run on the residual text it returned finds
\* no formatted span: extractTaggedVocalists(extractTaggedVocalists(s)
\* .remainingText).vocalists is empty for every input s.
C18_ResidualHoldsNoSpan ==
    pvOut.pc = "extracted" => pvOut.again = <<>>

\* C18 amended: when every tag of the input belongs to a formatted span around
\* a name, the extractor run on the residual text finds no span.
C18_ResidualOfSpansHoldsNoSpan ==
    (pvOut.pc = "extracted" /\ EveryTagInSpan(pvText)) => pvOut.again = <<>>

\* C18 witness: two spans were extracted from '<b>A</b>, <i>B</i>' and the
\* second run found nothing.
C18_Witness ==
    /\ pvOut.pc = "extracted"
    /\ pvText = OpenB \o <<"A">> \o CloseB \o <<",", " ">> \o OpenI \o <<"B">> \o CloseI
    /\ Len(pvOut.tagged) = 2
    /\ pvOut.again = <<>>

\* The nested spans of the input lists.
NestedSpans ==
    { OpenB \o OpenI \o <<"A">> \o CloseI \o CloseB,
      OpenI \o OpenB \o <<"B">> \o CloseB \o CloseI }

\* The character ranges [start, end) of two matches intersect.
Intersect(m1, m2) == m1.start < m2.end /\ m2.start < m1.end

\* C25: the matches the extractor keeps are pairwise non-intersecting in
\* character range, and a nested span <b><i>x</i></b> or <i><b>x</b></i> is
\* kept as one bold-italic match only: no kept match lies inside it.
C25_KeptMatchesAreDisjoint ==
    pvOut.pc = "parsed" =>
        LET kept == pvOut.matches
        IN  /\ \A j, k \in 1..Len(kept) : j # k => ~Intersect(kept[j], kept[k])
            /\ \A n \in NestedSpans : \A at \in 1..Len(pvText) :
                  MatchAt(pvText, n, at) =>
                      LET span == [start |-> at - 1, end |-> at - 1 + Len(n)]
                          in   == {j \in 1..Len(kept) : Intersect(kept[j], span)}
                      IN  /\ Cardinality(in) = 1
                          /\ \A j \in in :
                                /\ kept[j].format = "bold-italic"
                                /\ kept[j].start = span.start
                                /\ kept[j].end = span.end

\* C25 witness: of '<b><i>A</i></b>, <i>B</i>' the nested span was kept as
\* one match and the italic span as another.
C25_Witness ==
    /\ pvOut.pc = "parsed"
    /\ pvText = OpenB \o OpenI \o <<"A">> \o CloseI \o CloseB \o <<",", " ">>
                    \o OpenI \o <<"B">> \o CloseI
    /\ Len(pvOut.matches) = 2
    /\ pvOut.matches[1].format = "bold-italic"
    /\ pvOut.matches[2].format = "italic"

\* The single format of the first tag of a bold-italic opening marker.
FirstTagFormat(ln) ==
    IF StartsWith(ln, OpenB \o OpenI) THEN "bold"
    ELSE IF StartsWith(ln, OpenI \o OpenB) THEN "italic"
    ELSE "none"

\* The first entry of format f.
FirstOfFormat(vocalists, f) ==
    vocalists[CHOOSE j \in 1..Len(vocalists) :
                 /\ vocalists[j].format = f
                 /\ \A k \in 1..(j - 1) : vocalists[k].format # f].key

\* C26: for a line that begins with a bold-italic opening marker while the
\* map has no bold-italic entry, attribution falls through by the first tag
\* of the line: <b><i> goes to the bold entry if present, <i><b> to the
\* italic entry if present, and otherwise to the default (plain entry, else
\* first entry).
C26_BoldItalicFallsThrough ==
    (/\ pvOut.pc = "determined"
     /\ FirstTagFormat(pvOut.line) # "none"
     /\ ~HasFormat(pvOut.vocalists, "bold-italic")) =>
        pvOut.vocalist =
            IF HasFormat(pvOut.vocalists, FirstTagFormat(pvOut.line))
            THEN FirstOfFormat(pvOut.vocalists, FirstTagFormat(pvOut.line))
            ELSE FirstPlainElseFirst(pvOut.vocalists)

\* C26 witness: with the map of 'A, <i>B</i>' the line '<i><b>x' went to the
\* italic entry B.
C26_Witness ==
    /\ pvOut.pc = "determined"
    /\ pvText = <<"A", ",", " ">> \o OpenI \o <<"B">> \o CloseI
    /\ pvOut.line = OpenI \o OpenB \o <<"x">>
    /\ pvOut.vocalist = <<"B">>

\* The names of a map, in its order.
KeysOf(vocalists) == [j \in 1..Len(vocalists) |-> vocalists[j].key]

\* No lookup of determineVocalist finds an entry for the line: the format of
\* its leading marker has no entry, nor has the single format a bold-italic
\* marker falls through to.
NoMatchingFormat ==
    /\ ~HasFormat(pvOut.vocalists, LeadingFormat(pvOut.line))
    /\ ~HasFormat(pvOut.vocalists, FirstTagFormat(pvOut.line))

\* C27: the map returned by parseVocalists lists the names of the formatted
\* spans first, in left-to-right position order, and then the names of the
\* untagged text, left to right; so, for a list without untagged names, a
\* line with no matching format goes to the vocalist of the leftmost span.
C27_SpansFirstThenUntagged ==
    pvOut.pc \in {"parsed", "determined"} =>
        /\ \A j, k \in 1..Len(pvOut.matches) :
              j < k => pvOut.matches[j].start < pvOut.matches[k].start
        /\ KeysOf(pvOut.vocalists) = KeysOf(InsertionMap)
        /\ (/\ pvOut.pc = "determined"
            /\ pvOut.untagged = <<>>
            /\ pvOut.tagged # <<>>
            /\ NoMatchingFormat) =>
               pvOut.vocalist = pvOut.tagged[1].name

FormattingMarkers == {OpenB, CloseB, OpenI, CloseI}

\* C28: no name of the map returned by parseVocalists is empty or contains a
\* formatting marker (<b>, </b>, <i>, </i>), whatever the list: unmatched
\* tags, spans of blank text and spans nested in the text of another span
\* included.
C28_NamesHoldNoMarker ==
    pvOut.pc = "parsed" =>
        \A j \in 1..Len(pvOut.vocalists) :
            /\ pvOut.vocalists[j].key # <<>>
            /\ \A m \in FormattingMarkers : ~Includes(pvOut.vocalists[j].key, m)

-----------------------------------------------------------------------------
(* Properties of the loop (Spec), continued                                 *)

\* The text of a line outside its <...> tags; inside tells whether position
\* at lies in a tag. A '<' that no '>' follows is text.
RECURSIVE OutsideTags(_, _, _)
OutsideTags(t, at, inside) ==
    IF at > Len(t) THEN <<>>
    ELSE IF inside
    THEN OutsideTags(t, at + 1, t[at] # ">")
    ELSE IF t[at] = "<" /\ \E j \in (at + 1)..Len(t) : t[j] = ">"
    THEN OutsideTags(t, at + 1, TRUE)
    ELSE <<t[at]>> \o OutsideTags(t, at + 1, FALSE)

\* The number of white-space-separated tokens of a text: the positions where
\* a token begins.
TokenCount(s) ==
    Cardinality({j \in 1..Len(s) : s[j] # " " /\ (j = 1 \/ s[j - 1] = " ")})

RECURSIVE SumWords(_)
SumWords(stats) ==
    IF stats = <<>> THEN 0 ELSE Head(stats).words + SumWords(Tail(stats))

\* The words counted for the vocalist v, 0 when v has no statistics.
WordsOf(stats, v) ==
    IF \E j \in 1..Len(stats) : stats[j].key = v
    THEN stats[CHOOSE j \in 1..Len(stats) : stats[j].key = v].words
    ELSE 0

\* C19: the word count added for an attributed line is the number of
\* non-empty white-space-separated tokens of the line after every <...> tag
\* is removed, whatever markers wrap the line; the line counts as one line
\* (a line made only of tags adds 1 line and 0 words).
C19_WordsAreTokensOutsideTags ==
    [][ (LyricStep /\ currentVocalists # <<>>) =>
            LET v == Last(result').vocalist
                n == TokenCount(OutsideTags(Trim(line'), 1, FALSE))
            IN  /\ WordsOf(vocalistStats', v) = WordsOf(vocalistStats, v) + n
                /\ SumWords(vocalistStats') = SumWords(vocalistStats) + n
                /\ SumLines(vocalistStats') = SumLines(vocalistStats) + 1 ]_vars

\* C19 witness: after '<b>x</b> y' (two words) a line made only of tags was
\* attributed: two lines, two words.
C19_Witness ==
    /\ Len(result) = 2
    /\ result[1].line = OpenB \o <<"x">> \o CloseB \o <<" ", "y">>
    /\ result[2].line = OpenB \o CloseB
    /\ SumLines(vocalistStats) = 2
    /\ SumWords(vocalistStats) = 2

\* A step of the loop that consumes a line that is empty after trimming.
BlankStep == idx' = idx + 1 /\ Trim(line') = <<>>

\* C20: a blank line is a no-op in every state, an open span included: the
\* step that consumes it leaves the attributed lines, the statistics, the
\* active map and the open span as they were, so the output is the same with
\* or without the line.
C20_BlankLineIsNoOp ==
    [][ BlankStep =>
            /\ result' = result
            /\ vocalistStats' = vocalistStats
            /\ currentVocalists' = currentVocalists
            /\ openFormattingTag' = openFormattingTag
            /\ openTagVocalist' = openTagVocalist ]_vars

\* C20 witness: a line of white space was consumed while a span was open, and
\* the span is still open.
C20_Witness ==
    /\ IsOpen
    /\ Len(result) >= 1
    /\ line # <<>>
    /\ Trim(line) = <<>>

-----------------------------------------------------------------------------
(* Properties of generateStatsSummary (SummarySpec)                         *)

\* C21: generateStatsSummary returns totalLines and totalWords equal to the
\* sums of the lines and words of the vocalists, vocalistCount equal to the
\* number of vocalists, and for each vocalist the lines and words of the
\* input; for the empty mapping the three totals are 0 and the mapping of
\* the vocalists is empty.
C21_SummaryTotals ==
    summary.returned =>
        /\ summary.totalLines = SumLines(statsArg)
        /\ summary.totalWords = SumWords(statsArg)
        /\ summary.vocalistCount = Len(statsArg)
        /\ Len(summary.vocalistStats) = Len(statsArg)
        /\ \A j \in 1..Len(statsArg) :
              /\ summary.vocalistStats[j].key = statsArg[j].key
              /\ summary.vocalistStats[j].lines = statsArg[j].lines
              /\ summary.vocalistStats[j].words = statsArg[j].words
        /\ statsArg = <<>> =>
              /\ summary.totalLines = 0
              /\ summary.totalWords = 0
              /\ summary.vocalistCount = 0
              /\ summary.vocalistStats = <<>>

\* C21 witness: the summary of three vocalists with 2, 1, 1 lines and
\* 2, 2, 1 words.
C21_Witness ==
    /\ summary.returned
    /\ [j \in 1..Len(statsArg) |-> <<statsArg[j].lines, statsArg[j].words>>]
          = << <<2, 2>>, <<1, 2>>, <<1, 1>> >>
    /\ summary.totalLines = 4
    /\ summary.totalWords = 5
    /\ summary.vocalistCount = 3

\* The value of a decimal digit.
DigitOf(c) ==
    CASE c = "0" -> 0 [] c = "1" -> 1 [] c = "2" -> 2 [] c = "3" -> 3
      [] c = "4" -> 4 [] c = "5" -> 5 [] c = "6" -> 6 [] c = "7" -> 7
      [] c = "8" -> 8 [] c = "9" -> 9

\* The number of tenths a string "ddd.d" stands for.
RECURSIVE TenthsOf(_, _)
TenthsOf(text, acc) ==
    IF text = <<>> THEN acc
    ELSE IF Head(text) = "." THEN TenthsOf(Tail(text), acc)
    ELSE TenthsOf(Tail(text), 10 * acc + DigitOf(Head(text)))

\* The text is digits, a point and one digit.
IsOneDecimal(text) ==
    /\ Len(text) >= 3
    /\ text[Len(text) - 1] = "."
    /\ \A j \in 1..Len(text) : j # Len(text) - 1 => text[j] \in
          {"0", "1", "2", "3", "4", "5", "6", "7", "8", "9"}

Abs(n) == IF n < 0 THEN -n ELSE n

RECURSIVE SumTenths(_)
SumTenths(entries) ==
    IF entries = <<>> THEN 0
    ELSE TenthsOf(Head(entries).linesPercentage.text, 0) + SumTenths(Tail(entries))

\* C22: when totalLines > 0, each linesPercentage is lines / totalLines * 100
\* rounded to one decimal place (at most half a tenth away), and the sum of
\* the linesPercentage differs from 100.0 by at most 0.1 for each vocalist;
\* in tenths of a percent.
C22_PercentagesAreRounded ==
    (summary.returned /\ summary.totalLines > 0) =>
        /\ \A j \in 1..Len(summary.vocalistStats) :
              LET p == summary.vocalistStats[j].linesPercentage
              IN  /\ p.isString
                  /\ IsOneDecimal(p.text)
                  /\ 2 * Abs(TenthsOf(p.text, 0) * summary.totalLines
                                - 1000 * statsArg[j].lines) <= summary.totalLines
        /\ Abs(SumTenths(summary.vocalistStats) - 1000)
              <= Len(summary.vocalistStats)

\* C22 witness: three vocalists of one line each get "33.3", 99.9 in all.
C22_Witness ==
    /\ summary.returned
    /\ Len(summary.vocalistStats) = 3
    /\ \A j \in 1..3 :
          summary.vocalistStats[j].linesPercentage.text = <<"3", "3", ".", "3">>

-----------------------------------------------------------------------------
(* Properties of aggregateAlbumStats (AlbumSpec)                            *)

\* The places of the successful songs: marked successful, with statistics.
ProcessedAt ==
    {i \in 1..Len(songResults) :
        songResults[i].success /\ songResults[i].vocalistStats.returned}

\* The sum of f over the finite set S.
RECURSIVE SumOver(_, _)
SumOver(f, S) ==
    IF S = {} THEN 0
    ELSE LET x == CHOOSE y \in S : TRUE
         IN  f[x] + SumOver(f, S \ {x})

\* The places of vocalist v in the statistics of the i-th result.
ListedAt(i, v) ==
    {j \in 1..Len(songResults[i].vocalistStats.vocalistStats) :
        songResults[i].vocalistStats.vocalistStats[j].key = v}

SongEntry(i, v) ==
    songResults[i].vocalistStats.vocalistStats[CHOOSE j \in ListedAt(i, v) : TRUE]

\* C23: aggregateAlbumStats sums over the successful songs only: the lines
\* and words of each vocalist of the distribution are the sums of that
\* vocalist's lines and words over the successful songs, songsAppeared is
\* the number of successful songs listing the vocalist, totalLines and
\* totalWords are the sums of the totals of the successful songs, totalSongs
\* is the number of results and processedSongs the number of successful ones.
C23_SumsOverSuccessfulSongs ==
    albumStats.returned =>
        /\ albumStats.totalSongs = Len(songResults)
        /\ albumStats.processedSongs = Cardinality(ProcessedAt)
        /\ albumStats.totalLines =
              SumOver([i \in ProcessedAt |-> songResults[i].vocalistStats.totalLines],
                      ProcessedAt)
        /\ albumStats.totalWords =
              SumOver([i \in ProcessedAt |-> songResults[i].vocalistStats.totalWords],
                      ProcessedAt)
        /\ \A v \in AlbumNames :
              LET listing == {i \in ProcessedAt : ListedAt(i, v) # {}}
                  found == {j \in 1..Len(albumStats.vocalistDistribution) :
                               albumStats.vocalistDistribution[j].key = v}
              IN  IF listing = {} THEN found = {}
                  ELSE /\ Cardinality(found) = 1
                       /\ \A j \in found :
                            LET d == albumStats.vocalistDistribution[j]
                            IN  /\ d.lines = SumOver([i \in listing |->
                                                 SongEntry(i, v).lines], listing)
                                /\ d.words = SumOver([i \in listing |->
                                                 SongEntry(i, v).words], listing)
                                /\ d.songsAppeared = Cardinality(listing)
        /\ \A j \in 1..Len(albumStats.vocalistDistribution) :
              albumStats.vocalistDistribution[j].key \in AlbumNames

\* C23 witness: a vocalist of two successful songs, with 1 and 2 lines, next
\* to a vocalist of one of them.
C23_Witness ==
    /\ albumStats.returned
    /\ albumStats.processedSongs = 2
    /\ Len(albumStats.vocalistDistribution) = 2
    /\ \E j \in 1..Len(albumStats.vocalistDistribution) :
          /\ albumStats.vocalistDistribution[j].songsAppeared = 2
          /\ albumStats.vocalistDistribution[j].lines = 3
          /\ albumStats.vocalistDistribution[j].words = 5
    /\ \E j \in 1..Len(albumStats.vocalistDistribution) :
          albumStats.vocalistDistribution[j].songsAppeared = 1

-----------------------------------------------------------------------------
(* Properties of httpGet (HttpSpec)                                         *)

\* The response of a request ends in this step with a 4xx status code.
Ends4xx ==
    \E a \in 1..Len(reqs) :
        /\ reqs[a].state = "open"
        /\ reqs'[a].state = "ended"
        /\ reqs'[a].statusCode >= 400
        /\ reqs'[a].statusCode < 500

\* C29: during one httpGet call the number of attempts started never exceeds
\* opts.retries, however the end, error and timeout callbacks of the
\* attempts interleave (the error callback of a destroyed request
\* included), and a 4xx response rejects without starting an attempt or a
\* retry timer.
C29_AttemptsWithinRetries ==
    [][/\ attempts' <= opts'.retries
       /\ Ends4xx => /\ promise = "pending" => promise' = "rejected"
                     /\ attempts' = attempts
                     /\ timers' = timers]_vars

-----------------------------------------------------------------------------
(* Properties of RateLimiter (LimiterFairSpec)                              *)

\* At most maxRequests slots were granted within the window that ends now.
\* Holding in every state, this bounds every half-open interval of length
\* windowMs: at the moment of its last grant all its grants are in the
\* window that ends then.
WindowBound == Len(granted) <= limiter.maxRequests

\* C30: for maxRequests >= 1 and any interleaving of concurrent callers of
\* waitForSlot, the slots granted within any half-open interval of length
\* windowMs never exceed maxRequests, and every waiting caller is granted a
\* slot in the end, as time advances.
C30_BoundedAndEveryCallerGranted ==
    /\ []WindowBound
    /\ \A c \in Callers :
          (waiters[c].pc = "waiting") ~> (waiters[c].pc = "granted")

=============================================================================
